---- MODULE Spec2Model ----
(***************************************************************************)
(* Resumable download engine of the datacollective client:                 *)
(*   download.py   determine_resume_state, execute_download_plan           *)
(*   api_utils.py  _prepare_download_headers                               *)
(*   errors.py     DownloadError, _format_bytes                            *)
(*   datasets.py   save_dataset_to_disk, _execute_download_plan            *)
(* The local filesystem is a function from the three paths of a            *)
(* DownloadPlan to files; the remote side is the archive served by the     *)
(* plan's download URL.                                                    *)
(* Resumable multipart upload of the same client:                          *)
(*   upload.py     upload_dataset_file, load_upload_state,                 *)
(*                 save_upload_state, _normalize_parts, _expected_parts    *)
(*   models.py     UploadPart                                              *)
(* The archive to upload and the upload state file are two more files; the *)
(* remote side is the upload API and the store behind the presigned URLs.  *)
(*   submissions.py  create_submission_with_upload, submit_submission      *)
(* Specifications: Spec (one download call), SpecUpload (upload calls),    *)
(* SpecApi (the client's functions called on their own), SpecRetry and     *)
(* SpecUploadRetry (a caller that retries after each failure, under        *)
(* fairness), SpecSubmit (draft, upload, submit) and SpecRuns (two         *)
(* callers downloading to the same paths).                                 *)
(***************************************************************************)
EXTENDS Integers, Sequences, FiniteSets, TLC

\* ------------------------------------------------------------------ bounds
ArchiveLen == 3
MaxMarkerLen == 2
ChunkSize == 2
MaxCalls == 1
FileLen == 3
MaxUploads == 2
MaxIdLen == 2
MaxSessions == 2
MaxRunCalls == 2

\* --------------------------------------------------------------- constants
KB == 1024
NumUnits == 6

\* ------------------------------------------------------------ value shapes
\* Python's None / a present value.
NoneV == [some |-> FALSE, v |-> <<>>]
Some(x) == [some |-> TRUE, v |-> x]
\* Python truthiness of an optional string: neither None nor "".
Truthy(o) == o.some /\ o.v # <<>>

\* A path that does not exist / a file holding data.
Absent == [exists |-> FALSE, data |-> <<>>]
File(d) == [exists |-> TRUE, data |-> d]

Min(a, b) == IF a < b THEN a ELSE b

\* Text is a sequence of characters; " " stands for the whitespace class.
\* Markers are written over "a" and " ": a version's checksum, a padded one,
\* a blank one, and texts that are no version's checksum.
Chars == {"a", " "}
IsSpace(c) == c = " "

RECURSIVE lstrip(_)
lstrip(s) == IF s # <<>> /\ IsSpace(Head(s)) THEN lstrip(Tail(s)) ELSE s

RECURSIVE rstrip(_)
rstrip(s) ==
  IF s # <<>> /\ IsSpace(s[Len(s)]) THEN rstrip(SubSeq(s, 1, Len(s) - 1)) ELSE s

strip(s) == rstrip(lstrip(s))

\* ------------------------------------------------------------- remote side
\* The dataset versions the platform may serve; a version's checksum is its
\* name, its archive ArchiveLen bytes that differ from every other version's.
Versions == {"a", "b"}
Checksum(ver) == <<ver>>
Archive(ver) == [i \in 1..ArchiveLen |-> IF ver = "a" THEN i ELSE 10 + i]

\* -------------------------------------------------------------- DownloadPlan
tmp_filepath == "part"
checksum_filepath == "marker"
target_filepath == "target"
Paths == {tmp_filepath, checksum_filepath, target_filepath}

DownloadPlan(ver, withChecksum) ==
  [download_url |-> ver,
   size_bytes |-> Len(Archive(ver)),
   checksum |-> IF withChecksum THEN Some(Checksum(ver)) ELSE NoneV]

Plans == {DownloadPlan(ver, w) : ver \in Versions, w \in BOOLEAN}
NoPlan == [download_url |-> "", size_bytes |-> 0, checksum |-> NoneV]

\* ------------------------------------------------------------ download.py
\* Fault variant: the marker is compared as stored, without strip().
read_checksum_file_unstripped(f) == IF ~f.exists THEN NoneV ELSE Some(f.data)

_read_checksum_file(f) == IF ~f.exists THEN NoneV ELSE Some(strip(f.data))

\* write_checksum_file, lines 209-211: the marker is rewritten with the text.
write_checksum_file(f, checksum) ==
  [f EXCEPT ![checksum_filepath] = File(checksum)]

\* Fault variant: only the partial file is unlinked, the marker is left.
cleanup_partial_only(f) == [f EXCEPT ![tmp_filepath] = Absent]

cleanup_partial_download(f) ==
  [f EXCEPT ![tmp_filepath] = Absent, ![checksum_filepath] = Absent]

\* Fault variant: the resume branch recreates the partial file empty.
resume_case_truncating(f, stored_checksum) ==
  [ret |-> stored_checksum, fs |-> [f EXCEPT ![tmp_filepath] = File(<<>>)]]

\* Case 1, checksum matches: return the stored checksum, touch nothing.
resume_case(f, stored_checksum) == [ret |-> stored_checksum, fs |-> f]

\* Fault variant: any non-blank marker next to a partial file is taken as a
\* match, whatever the plan's checksum.
determine_resume_state_any_marker(f, download_plan) ==
  LET stored_checksum == _read_checksum_file(f[checksum_filepath])
  IN  IF f[tmp_filepath].exists /\ f[checksum_filepath].exists
         /\ Truthy(stored_checksum)
      THEN [ret |-> stored_checksum, fs |-> f]
      ELSE [ret |-> NoneV, fs |-> cleanup_partial_download(f)]

determine_resume_state(f, download_plan) ==
  LET part_exists == f[tmp_filepath].exists
      checksum_file_exists == f[checksum_filepath].exists
      stored_checksum ==
        IF checksum_file_exists
        THEN _read_checksum_file(f[checksum_filepath])
        ELSE NoneV
  IN  IF part_exists /\ checksum_file_exists /\ Truthy(stored_checksum)
      THEN IF stored_checksum = download_plan.checksum
           THEN resume_case(f, stored_checksum)
           ELSE [ret |-> NoneV, fs |-> cleanup_partial_download(f)]
      ELSE IF part_exists /\ ~checksum_file_exists
      THEN [ret |-> NoneV, fs |-> cleanup_partial_download(f)]
      ELSE IF checksum_file_exists /\ ~part_exists
      THEN [ret |-> NoneV, fs |-> cleanup_partial_download(f)]
      ELSE [ret |-> NoneV, fs |-> f]

\* ------------------------------------------------------------ api_utils.py
\* Fault variant: a stray partial file is kept when no resume checksum is given.
prepare_download_headers_keeping(f, resume_checksum) ==
  IF ~f[tmp_filepath].exists
  THEN [headers |-> NoneV, existing_size |-> 0, fs |-> f]
  ELSE IF Truthy(resume_checksum)
  THEN [headers |-> Some(Len(f[tmp_filepath].data)),
        existing_size |-> Len(f[tmp_filepath].data), fs |-> f]
  ELSE [headers |-> NoneV, existing_size |-> 0, fs |-> f]

\* headers is the first byte of the Range header ("bytes=<n>-"), or None for {}.
_prepare_download_headers(f, resume_checksum) ==
  IF ~f[tmp_filepath].exists
  THEN [headers |-> NoneV, existing_size |-> 0, fs |-> f]
  ELSE IF Truthy(resume_checksum)
  THEN [headers |-> Some(Len(f[tmp_filepath].data)),
        existing_size |-> Len(f[tmp_filepath].data), fs |-> f]
  ELSE [headers |-> NoneV, existing_size |-> 0,
        fs |-> [f EXCEPT ![tmp_filepath] = Absent]]

\* --------------------------------------------------------------- errors.py
RECURSIVE Pow(_, _)
Pow(b, e) == IF e = 0 THEN 1 ELSE b * Pow(b, e - 1)

\* The unit the loop of _format_bytes stops at: the first whose value is
\* below 1024, or the last one.
RECURSIVE UnitOf(_, _)
UnitOf(n, u) ==
  IF n < Pow(KB, u + 1) \/ u = NumUnits - 1 THEN u ELSE UnitOf(n, u + 1)

\* f"{value:.1f}": the quotient in tenths, ties to even.
RoundHalfEven(num, den) ==
  LET q == num \div den
      r == num % den
  IN  IF 2 * r < den THEN q
      ELSE IF 2 * r > den THEN q + 1
      ELSE IF q % 2 = 0 THEN q ELSE q + 1

_format_bytes(bytes_val) ==
  LET u == UnitOf(bytes_val, 0)
  IN  [tenths |-> RoundHalfEven(bytes_val * 10, Pow(KB, u)), unit |-> u]

NoError ==
  [kind |-> "none", session_bytes |-> _format_bytes(0),
   total_downloaded_bytes |-> _format_bytes(0),
   total_archive_bytes |-> _format_bytes(0),
   remaining_bytes |-> _format_bytes(0), checksum |-> NoneV]

\* An exception of another class; it carries none of DownloadError's fields.
OtherError(k) == [NoError EXCEPT !.kind = k]

\* DownloadError.__init__ (remaining_percentage is not read by any property
\* below and is left out).
DownloadError(session_bytes, total_downloaded_bytes, total_archive_bytes, checksum) ==
  [kind |-> "DownloadError",
   session_bytes |-> _format_bytes(session_bytes),
   total_downloaded_bytes |-> _format_bytes(total_downloaded_bytes),
   total_archive_bytes |-> _format_bytes(total_archive_bytes),
   remaining_bytes |-> _format_bytes(total_archive_bytes - total_downloaded_bytes),
   checksum |-> checksum]

\* ------------------------------------------------- download.py, the executor
\* open(tmp_filepath, "ab"): creates the file when absent, keeps its bytes.
open_append(f) ==
  [f EXCEPT ![tmp_filepath] = IF @.exists THEN @ ELSE File(<<>>)]

\* Fault variant: the write lands at the start of the file.
write_chunk_rewriting(f, chunk) == [f EXCEPT ![tmp_filepath] = File(chunk)]

\* Fault variant: the chunk is written to the target path.
write_chunk_to_target(f, chunk) ==
  [f EXCEPT ![target_filepath] = File(@.data \o chunk)]

\* f.write(chunk) on the file opened for append.
write_chunk(f, chunk) ==
  [f EXCEPT ![tmp_filepath] = File(@.data \o chunk)]

\* Fault variant: the total is overwritten with the size of the last chunk.
total_after_chunk_last(total, chunk) == Len(chunk)

\* total_downloaded_bytes += downloaded_bytes_so_far
total_after_chunk(total, chunk) == total + Len(chunk)

\* What the server streams for a GET of the plan's URL: the bytes from the
\* Range offset on when it serves the range (206), the whole archive when
\* there is no Range header or it ignores it (200).
ResponseBody(download_plan, headers, serves_range) ==
  LET a == Archive(download_plan.download_url)
  IN  IF headers.some /\ serves_range
      THEN SubSeq(a, headers.v + 1, Len(a))
      ELSE a

\* A range starting at or past the end of the archive is answered 416.
RangeSatisfiable(download_plan, headers) ==
  headers.some => headers.v < Len(Archive(download_plan.download_url))

\* ================================================== upload.py: the values
\* The submissions a call may name, and the name of the archive's path.
SubmissionIds == {"s1", "s2"}
\* Submission ids are atoms; "" and " " are the ones str.strip() leaves
\* empty (_require_non_empty, upload.py lines 343-345; submissions.py line 39).
is_blank(submission) == submission \in {"", " "}
path_name == "f1"
mime_type == "application/gzip"

\* The bytes of the archive to upload.
SourceBytes == [i \in 1..FileLen |-> i]

\* Ids are texts; the empty text is falsy.  The server's n-th session.
SessionId(n) == <<n>>
\* The part sizes the server negotiates.
PartSizes == {1, 2}
\* The part numbers a state file can name.
MaxPartNumber == FileLen + 2
PartNumbers == 1..MaxPartNumber

\* models.py: UploadPart; partNumber has ge=1.
UploadPart(partNumber, etag) == [partNumber |-> partNumber, etag |-> etag]
model_dump(part) == [partNumber |-> part.partNumber, etag |-> part.etag]
model_validate_raises(d) == d.partNumber < 1

\* Lines 28-38.
UploadState(submissionId, fileUploadId, uploadId, fileSize, partSize, filename, mimeType, parts, checksum) ==
  [submissionId |-> submissionId, fileUploadId |-> fileUploadId,
   uploadId |-> uploadId, fileSize |-> fileSize, partSize |-> partSize,
   filename |-> filename, mimeType |-> mimeType, parts |-> parts,
   checksum |-> checksum]

\* `state` and `session` are None or an object.
NoState ==
  [some |-> FALSE, v |-> UploadState("", <<>>, <<>>, 0, 0, "", "", <<>>, NoneV)]

\* Lines 16-25 (bucket, key and expiresAt are never read).
UploadSession(fileUploadId, uploadId, partSize, partNumber, presignedUrl) ==
  [fileUploadId |-> fileUploadId, uploadId |-> uploadId,
   partSize |-> partSize, partNumber |-> partNumber,
   presignedUrl |-> presignedUrl]

NoSession == [some |-> FALSE, v |-> UploadSession(<<>>, <<>>, 0, 0, "")]

\* to_dict, lines 40-51: the JSON object of a state.
to_dict(s) ==
  [submissionId |-> s.submissionId, fileUploadId |-> s.fileUploadId,
   uploadId |-> s.uploadId, fileSize |-> s.fileSize, partSize |-> s.partSize,
   filename |-> s.filename, mimeType |-> s.mimeType,
   parts |-> [i \in 1..Len(s.parts) |-> model_dump(s.parts[i])],
   checksum |-> s.checksum]

from_dict_without_parts(payload) ==
  [raised |-> FALSE,
   state |-> UploadState(payload.submissionId, payload.fileUploadId,
                         payload.uploadId, payload.fileSize, payload.partSize,
                         payload.filename, payload.mimeType, <<>>,
                         payload.checksum)]

\* from_dict, lines 53-67: raises when a part does not validate.
from_dict(payload) ==
  IF \E i \in 1..Len(payload.parts) : model_validate_raises(payload.parts[i])
  THEN [raised |-> TRUE, state |-> NoState.v]
  ELSE [raised |-> FALSE,
        state |-> UploadState(payload.submissionId, payload.fileUploadId,
                              payload.uploadId, payload.fileSize,
                              payload.partSize, payload.filename,
                              payload.mimeType,
                              [i \in 1..Len(payload.parts) |->
                                 UploadPart(payload.parts[i].partNumber,
                                            payload.parts[i].etag)],
                              payload.checksum)]

\* The state file: absent, or a text that is a whole JSON object or what a
\* write cut short left of one.
NoStateFile ==
  [exists |-> FALSE, whole |-> FALSE, payload |-> to_dict(NoState.v)]
CutStateFile ==
  [exists |-> TRUE, whole |-> FALSE, payload |-> to_dict(NoState.v)]
StateFile(s) == [exists |-> TRUE, whole |-> TRUE, payload |-> to_dict(s)]

\* load_upload_state, lines 288-301.  json.loads (line 292) is outside the
\* try statement: a text that is not JSON raises JSONDecodeError.
load_upload_state(f) ==
  IF ~f.exists THEN [raised |-> "none", ret |-> NoState]
  ELSE IF ~f.whole THEN [raised |-> "JSONDecodeError", ret |-> NoState]
  ELSE LET r == from_dict(f.payload)
       IN  IF r.raised THEN [raised |-> "none", ret |-> NoState]
           ELSE IF r.state.fileUploadId = <<>> \/ r.state.uploadId = <<>>
                THEN [raised |-> "none", ret |-> NoState]
           ELSE IF r.state.fileSize <= 0 \/ r.state.partSize <= 0
                THEN [raised |-> "none", ret |-> NoState]
           ELSE [raised |-> "none", ret |-> Some(r.state)]

\* Lines 202-206: the loaded state is for another file or submission.
state_mismatch_by_file(s, file_size, final_filename, submission_id) ==
  \/ s.fileSize # file_size
  \/ s.filename # final_filename

state_mismatch(s, file_size, final_filename, submission_id) ==
  \/ s.fileSize # file_size
  \/ s.filename # final_filename
  \/ s.submissionId # submission_id

\* _expected_parts, lines 313-316.
_expected_parts(file_size, part_size) ==
  IF file_size <= 0 \/ part_size <= 0 THEN 0
  ELSE (file_size + part_size - 1) \div part_size

\* _normalize_parts, lines 319-325: a dict, a later entry replacing an
\* earlier one of the same number.
EmptyDict == [n \in PartNumbers |-> NoneV]

RECURSIVE normalize_from(_, _)
normalize_from(parts, d) ==
  IF parts = <<>> THEN d
  ELSE LET part == Head(parts)
       IN  normalize_from(Tail(parts),
             IF part.partNumber <= 0 THEN d
             ELSE [d EXCEPT ![part.partNumber] = Some(part.etag)])

normalize_parts_to_none(s) == EmptyDict

_normalize_parts(s) == normalize_from(s.parts, EmptyDict)

\* len(parts_by_number) and sorted(parts_by_number.items()), lines 271-281.
Keys(d) == {n \in PartNumbers : d[n].some}

RECURSIVE sorted_items(_, _)
sorted_items(d, n) ==
  IF n > MaxPartNumber THEN <<>>
  ELSE (IF d[n].some THEN <<UploadPart(n, d[n].v)>> ELSE <<>>)
       \o sorted_items(d, n + 1)

\* file_handle.read(state.partSize) at offset `bytes_read`, line 241.
read(bytes, offset, size) ==
  SubSeq(bytes, offset + 1, Min(offset + size, Len(bytes)))

\* hashlib.sha256: update appends to the bytes hashed; the digest is taken
\* as a one-to-one image of them.
update_restarting(hasher, chunk) == chunk

update(hasher, chunk) == hasher \o chunk
hexdigest(hasher) == Some(<<hasher>>)

\* _extract_etag, lines 336-340, on the ETag header of the PUT's response.
IsQuote(c) == c = "\""

RECURSIVE lstrip_quotes(_)
lstrip_quotes(s) ==
  IF s # <<>> /\ IsQuote(Head(s)) THEN lstrip_quotes(Tail(s)) ELSE s

RECURSIVE rstrip_quotes(_)
rstrip_quotes(s) ==
  IF s # <<>> /\ IsQuote(s[Len(s)])
  THEN rstrip_quotes(SubSeq(s, 1, Len(s) - 1)) ELSE s

extract_etag_lenient(etag) ==
  [raised |-> FALSE,
   etag |-> IF etag.some THEN rstrip_quotes(lstrip_quotes(strip(etag.v)))
            ELSE <<>>]

_extract_etag(etag) ==
  IF ~Truthy(etag) THEN [raised |-> TRUE, etag |-> <<>>]
  ELSE [raised |-> FALSE, etag |-> rstrip_quotes(lstrip_quotes(strip(etag.v)))]

\* What the servers answer.
ETagHeaders == {NoneV, Some(<<>>), Some(<<"\"", "e", "\"">>)}
PresignedUrls == {"", "url"}
InitiateResponses(n) ==
  {UploadSession(SessionId(n), SessionId(n), ps, 1, u) :
     ps \in PartSizes, u \in PresignedUrls}
    \cup {UploadSession(<<>>, SessionId(n), 1, 1, "url"),
          UploadSession(SessionId(n), SessionId(n), 0, 1, "url")}

\* ============================== the functions of the client, one call each
\* The environment's API key, the ids and texts a caller passes, the
\* statuses and bodies the servers answer with.
ApiKeys == {NoneV, Some(<<>>), Some(<<"k">>)}
Statuses == {200, 204, 304, 400, 403, 404, 429, 500}
NoInt == [some |-> FALSE, v |-> 0]
NoText == [some |-> FALSE, v |-> ""]
RangeHeaders == {NoInt} \cup {[some |-> TRUE, v |-> n] : n \in 0..1}

\* payload.get(key, default) on a body that may lack the key.
get(field, default) == IF field.some THEN field.v ELSE default

\* `not value or not value.strip()`: download.py 54, datasets.py 42 and 61,
\* upload.py 344.
blank_when_empty(value) == value = <<>>

blank(value) == value = <<>> \/ strip(value) = <<>>

\* api_utils.py 93-103.
_get_api_key(key) ==
  IF ~Truthy(key) THEN [raised |-> TRUE, key |-> <<>>]
  ELSE [raised |-> FALSE, key |-> key.v]

_auth_headers(key) == Some(<<"Bearer", " ">> \o key)

\* Lines 58-62: the headers of the request (User-Agent is always there).
NoAuthorization == [some |-> FALSE, v |-> <<>>]
Request(method, url, authorization, range) ==
  [method |-> method, url |-> url, Authorization |-> authorization,
   Range |-> range]

\* Lines 76-84 and requests' raise_for_status, which raises for a status
\* from 400 to 599.
raise_for_status(status) == 400 <= status /\ status < 600

status_outcome(status) ==
  IF status = 404 THEN "FileNotFoundError"
  ELSE IF status = 403 THEN "PermissionError"
  ELSE IF status = 429 THEN "RuntimeError"
  ELSE IF raise_for_status(status) THEN "HTTPError"
  ELSE "none"

\* send_api_request, lines 25-86: what it raises, the requests it has
\* issued, and whether it returns the response.
send_api_request_anonymous(key, method, url, extra_headers, include_auth_headers, status) ==
  [raised |-> status_outcome(status),
   sent |-> <<Request(method, url, NoAuthorization, extra_headers)>>,
   returned |-> status_outcome(status) = "none"]

send_api_request(key, method, url, extra_headers, include_auth_headers, status) ==
  IF include_auth_headers /\ _get_api_key(key).raised
  THEN [raised |-> "ValueError", sent |-> <<>>, returned |-> FALSE]
  ELSE [raised |-> status_outcome(status),
        sent |-> <<Request(method, url,
                           IF include_auth_headers
                           THEN _auth_headers(_get_api_key(key).key)
                           ELSE NoAuthorization,
                           extra_headers)>>,
        returned |-> status_outcome(status) = "none"]

\* download.py 175-182: the request execute_download_plan makes to the
\* plan's download URL.
download_include_auth_headers == FALSE

\* datasets.py 118-124: requests.get with the Range header only.
requests_get(url, headers, status) ==
  [raised |-> IF raise_for_status(status) THEN "HTTPError" ELSE "none",
   sent |-> <<Request("GET", url, NoAuthorization, headers)>>,
   returned |-> ~raise_for_status(status)]

\* _upload_part, upload.py 328-333.
_upload_part(presigned_url, status) ==
  IF presigned_url = ""
  THEN [raised |-> "ValueError", sent |-> <<>>, returned |-> FALSE]
  ELSE [raised |-> IF raise_for_status(status) THEN "HTTPError" ELSE "none",
        sent |-> <<Request("PUT", presigned_url, NoAuthorization, NoInt)>>,
        returned |-> ~raise_for_status(status)]

\* The bodies POST /datasets/{id}/download is answered with.
OptionalTexts(t) == {NoneV, Some(<<>>), Some(t)}
SizeAnswers == {NoInt} \cup {[some |-> TRUE, v |-> n] : n \in {-1, 0, ArchiveLen}}
DownloadPayloads ==
  [downloadUrl : OptionalTexts(<<"u">>), filename : OptionalTexts(<<"f">>),
   sizeBytes : SizeAnswers, checksum : {NoneV, Some(<<"c">>)}]

\* Lines 69-70 of download.py, 75-76 of datasets.py.
not_size_bytes(size_bytes) == ~size_bytes.some \/ size_bytes.v = 0

unexpected_format(payload) ==
  \/ ~Truthy(payload.downloadUrl)
  \/ ~Truthy(payload.filename)
  \/ not_size_bytes(payload.sizeBytes)

\* The plan built at lines 72-87 (the three paths follow from the filename).
SessionPlan(payload) ==
  [download_url |-> payload.downloadUrl.v, filename |-> payload.filename.v,
   size_bytes |-> payload.sizeBytes.v, checksum |-> payload.checksum]
NoSessionPlan ==
  [some |-> FALSE,
   v |-> [download_url |-> <<>>, filename |-> <<>>, size_bytes |-> 0,
          checksum |-> NoneV]]

\* get_download_plan, download.py 31-87; `writable` is what os.access says
\* of the download directory.
get_download_plan(dataset_id, writable, key, status, payload) ==
  IF blank(dataset_id)
  THEN [raised |-> "ValueError", sent |-> <<>>, ret |-> NoSessionPlan]
  ELSE IF ~writable
  THEN [raised |-> "PermissionError", sent |-> <<>>, ret |-> NoSessionPlan]
  ELSE LET r == send_api_request(key, "POST", "datasets/download", NoInt, TRUE, status)
       IN  IF ~r.returned
           THEN [raised |-> r.raised, sent |-> r.sent, ret |-> NoSessionPlan]
           ELSE IF unexpected_format(payload)
           THEN [raised |-> "RuntimeError: format", sent |-> r.sent,
                 ret |-> NoSessionPlan]
           ELSE [raised |-> "none", sent |-> r.sent,
                 ret |-> Some(SessionPlan(payload))]

\* _get_download_plan, datasets.py 60-90: the same steps.
_get_download_plan(dataset_id, writable, key, status, payload) ==
  IF blank(dataset_id)
  THEN [raised |-> "ValueError", sent |-> <<>>, ret |-> NoSessionPlan]
  ELSE IF ~writable
  THEN [raised |-> "PermissionError", sent |-> <<>>, ret |-> NoSessionPlan]
  ELSE LET r == send_api_request(key, "POST", "datasets/download", NoInt, TRUE, status)
       IN  IF ~r.returned
           THEN [raised |-> r.raised, sent |-> r.sent, ret |-> NoSessionPlan]
           ELSE IF unexpected_format(payload)
           THEN [raised |-> "RuntimeError: format", sent |-> r.sent,
                 ret |-> NoSessionPlan]
           ELSE [raised |-> "none", sent |-> r.sent,
                 ret |-> Some(SessionPlan(payload))]

\* get_dataset_details, datasets.py 28-47; its request goes through the
\* function datasets.py imports from api_utils.
get_dataset_details(dataset_id, key, status) ==
  IF blank(dataset_id)
  THEN [raised |-> "ValueError", sent |-> <<>>, returned |-> FALSE]
  ELSE send_api_request(key, "GET", "datasets", NoInt, TRUE, status)

\* upload.py 343-345.
_require_non_empty(value) == blank(value)

\* get_presigned_part_url, upload.py 116-139.
ChunkIndexes == -1..1
PresignedPartUrl(partNumber, presignedUrl) ==
  [partNumber |-> partNumber, presignedUrl |-> presignedUrl]
NoPresignedPartUrl == [some |-> FALSE, v |-> PresignedPartUrl(0, "")]
PartUrlAnswers ==
  [partNumber : {NoInt, [some |-> TRUE, v |-> 1]},
   presignedUrl : {NoText, [some |-> TRUE, v |-> "url"]}]

chunk_index_not_positive(chunk_index) == chunk_index <= 0

chunk_index_negative(chunk_index) == chunk_index < 0

get_presigned_part_url(file_upload_id, chunk_index, key, status, data) ==
  IF _require_non_empty(file_upload_id) \/ chunk_index_negative(chunk_index)
  THEN [raised |-> "ValueError", sent |-> <<>>, ret |-> NoPresignedPartUrl]
  ELSE LET r == send_api_request(key, "GET", "upload/presigned-url", NoInt, TRUE, status)
       IN  IF ~r.returned
           THEN [raised |-> r.raised, sent |-> r.sent,
                 ret |-> NoPresignedPartUrl]
           ELSE [raised |-> "none", sent |-> r.sent,
                 ret |-> Some(PresignedPartUrl(get(data.partNumber, chunk_index + 1),
                                               get(data.presignedUrl, "")))]

\* initiate_upload, upload.py 77-113: the part size is the server's.
InitiateAnswers ==
  [fileUploadId : {NoneV, Some(<<"a">>)}, uploadId : {NoneV, Some(<<"b">>)},
   partSize : {NoInt} \cup {[some |-> TRUE, v |-> n] : n \in {-1, 0, 2}},
   presignedUrl : {NoText, [some |-> TRUE, v |-> "url"]}]

initiate_upload(submission_id, file_size, key, status, data) ==
  IF _require_non_empty(submission_id) \/ file_size <= 0
  THEN [raised |-> "ValueError", sent |-> <<>>, ret |-> NoSession]
  ELSE LET r == send_api_request(key, "POST", "upload/initiate", NoInt, TRUE, status)
       IN  IF ~r.returned
           THEN [raised |-> r.raised, sent |-> r.sent, ret |-> NoSession]
           ELSE [raised |-> "none", sent |-> r.sent,
                 ret |-> Some(UploadSession(get(data.fileUploadId, <<>>),
                                            get(data.uploadId, <<>>),
                                            get(data.partSize, 0), 1,
                                            get(data.presignedUrl, "")))]

\* ------------------------------------------------------------------- state
VARIABLES
  fs,      \* path -> file
  op,      \* the function running, or the one that returned or raised last
  pc,      \* its position
  plan,    \* its DownloadPlan
  ret,     \* determine_resume_state's return value
  pre,     \* the files when the operation was called
  calls,   \* operations called so far
  resume_download_checksum,   \* the executor's argument
  headers,                    \* the request's Range offset, or None
  downloaded_bytes_so_far,
  session_downloaded_bytes,
  total_downloaded_bytes,
  body,    \* the bytes of the response not yet iterated
  written, \* the bytes passed to f.write in this call, in order
  raised,  \* the exception the operation ended with, NoError if none
  raised_at \* the position the exception was raised at, "" if none

\* ------------------------------------------------- upload.py: the state
VARIABLES
  source_exists,  \* whether there is a file at file_path
  source_file,    \* the bytes at file_path now
  state_file,     \* the file at state_path
  upc,            \* upload_dataset_file's position
  submission_id,  \* its arguments
  final_filename,
  resume,
  file_size,      \* its locals
  state,
  session,
  parts_by_number,
  hasher,
  bytes_read,
  part_index,
  chunk_read,     \* `chunk`, the bytes read for this part
  presigned_url,
  uraised,        \* the exception the call ended with, "none" if none
  uploads,        \* calls of upload_dataset_file so far
  sessions,       \* sessions the server has initiated so far
  edited,         \* whether another process has changed source_file
  pre_state_file, \* the state file when the call was made
  initiated,      \* this call's requests, in order: initiations,
  url_requests,   \*   chunk indexes of presigned-URL requests,
  puts,           \*   part numbers PUT and answered 2xx,
  completions     \*   complete_upload payloads

upvars == <<source_exists, source_file, state_file, upc, submission_id, final_filename,
            resume, file_size, state, session, parts_by_number, hasher,
            bytes_read, part_index, chunk_read, presigned_url, uraised, uploads,
            sessions, edited, pre_state_file, initiated, url_requests, puts,
            completions>>

\* No upload is in progress and none has been asked for.
UploadNotStarted ==
  /\ upc = "idle"
  /\ submission_id = ""
  /\ final_filename = ""
  /\ resume = FALSE
  /\ file_size = 0
  /\ state = NoState
  /\ session = NoSession
  /\ parts_by_number = EmptyDict
  /\ hasher = <<>>
  /\ bytes_read = 0
  /\ part_index = 0
  /\ chunk_read = <<>>
  /\ presigned_url = ""
  /\ uraised = "none"
  /\ uploads = 0
  /\ sessions = 0
  /\ edited = FALSE
  /\ pre_state_file = state_file
  /\ initiated = 0
  /\ url_requests = <<>>
  /\ puts = <<>>
  /\ completions = <<>>

\* ------------------------------- the functions called on their own: state
VARIABLES
  api_key,     \* os.getenv("MDC_API_KEY"): None or a text
  api_call,    \* the function called last and its arguments
  api_sent,    \* the HTTP requests that call has issued, in order
  api_result   \* what it raised, "none" if nothing, and what it returned

apivars == <<api_key, api_call, api_sent, api_result>>

\* --------------------------------------- the remote store, concurrent runs
VARIABLES
  stored,   \* part number -> the bytes last PUT for it in the open session
  expired,  \* whether the expiresAt of the initiation's URL has passed
  runs      \* run -> the locals of a concurrent execute_download_plan

auxvars == <<stored, expired, runs>>

dlvars == <<fs, op, pc, plan, ret, pre, calls, resume_download_checksum, headers,
            downloaded_bytes_so_far, session_downloaded_bytes,
            total_downloaded_bytes, body, written, raised, raised_at>>

vars == <<dlvars, upvars, apivars, auxvars>>

locals == <<resume_download_checksum, headers, downloaded_bytes_so_far,
            session_downloaded_bytes, total_downloaded_bytes, body, written>>

\* Texts a marker file may hold, bytes a partial file may hold.
RECURSIVE TextsOfLen(_)
TextsOfLen(n) ==
  IF n = 0 THEN {<<>>}
  ELSE {Append(t, c) : t \in TextsOfLen(n - 1), c \in Chars}
MarkerTexts == UNION {TextsOfLen(n) : n \in 0..MaxMarkerLen}
Prefixes(s) == {SubSeq(s, 1, n) : n \in 0..Len(s)}
PartContents == UNION {Prefixes(Archive(ver)) : ver \in Versions}

PartFiles == {Absent} \cup {File(d) : d \in PartContents}
MarkerFiles == {Absent} \cup {File(t) : t \in MarkerTexts}
\* The target is absent or holds an archive saved earlier.
TargetFiles == {Absent, File(Archive("a"))}

\* The resume checksums a caller may pass: None, "", or a version's checksum.
ResumeArgs == {NoneV, Some(<<>>)} \cup {Some(Checksum(ver)) : ver \in Versions}

\* The download runs that may overlap, and their locals before a call.
Runs == {1, 2}
NoRun ==
  [pc |-> "idle", resume_download_checksum |-> NoneV, headers |-> NoneV,
   body |-> <<>>, raised |-> FALSE, overlapped |-> FALSE,
   range_ignored |-> FALSE]

\* Nothing has been PUT, no URL has expired, no concurrent run was started.
AuxNotStarted ==
  /\ stored = EmptyDict
  /\ expired = FALSE
  /\ runs = [r \in Runs |-> NoRun]

\* No function has been called on its own; an API key is configured.
NoCall == [fn |-> "none"]
NoResult == [raised |-> "none", ret |-> NoneV]
ApiNotStarted ==
  /\ api_key = Some(<<"k">>)
  /\ api_call = NoCall
  /\ api_sent = <<>>
  /\ api_result = NoResult

\* No download or save is in progress and none has been asked for.
DownloadNotStarted ==
  /\ op = "none"
  /\ pc = "idle"
  /\ plan = NoPlan
  /\ ret = NoneV
  /\ pre = fs
  /\ calls = 0
  /\ resume_download_checksum = NoneV
  /\ headers = NoneV
  /\ downloaded_bytes_so_far = 0
  /\ session_downloaded_bytes = 0
  /\ total_downloaded_bytes = 0
  /\ body = <<>>
  /\ written = <<>>
  /\ raised = NoError
  /\ raised_at = ""

Init ==
  /\ \E pf \in PartFiles, mf \in MarkerFiles, tf \in TargetFiles :
       fs = (tmp_filepath :> pf) @@ (checksum_filepath :> mf)
            @@ (target_filepath :> tf)
  /\ DownloadNotStarted
  /\ source_exists = TRUE
  /\ source_file = SourceBytes
  /\ state_file = NoStateFile
  /\ UploadNotStarted
  /\ AuxNotStarted
  /\ ApiNotStarted

Idle == pc \in {"idle", "done"} /\ calls < MaxCalls

\* The state every call starts from.
Enter(o, p, rc) ==
  /\ op' = o
  /\ plan' = p
  /\ pre' = fs
  /\ calls' = calls + 1
  /\ resume_download_checksum' = rc
  /\ headers' = NoneV
  /\ downloaded_bytes_so_far' = 0
  /\ session_downloaded_bytes' = 0
  /\ total_downloaded_bytes' = 0
  /\ body' = <<>>
  /\ written' = <<>>
  /\ raised_at' = ""

\* determine_resume_state(download_plan)
DetermineResumeState ==
  /\ UNCHANGED <<upvars, apivars, auxvars>>
  /\ Idle
  /\ \E p \in Plans :
       LET r == determine_resume_state(fs, p)
       IN  /\ Enter("determine_resume_state", p, NoneV)
           /\ ret' = r.ret
           /\ fs' = r.fs
  /\ raised' = NoError
  /\ pc' = "done"

\* ---------------------- execute_download_plan (download.py), step by step
\* The call: arguments bound, nothing done yet.
ExecCall ==
  /\ UNCHANGED <<upvars, apivars, auxvars>>
  /\ Idle
  /\ \E p \in Plans, rc \in ResumeArgs : Enter("execute_download_plan", p, rc)
  /\ ret' = NoneV
  /\ raised' = NoError
  /\ pc' = "prepare"
  /\ UNCHANGED fs

\* Lines 162-168: headers and counters from _prepare_download_headers.
ExecPrepare ==
  /\ UNCHANGED <<upvars, apivars, auxvars>>
  /\ op = "execute_download_plan" /\ pc = "prepare"
  /\ LET r == _prepare_download_headers(fs, resume_download_checksum)
     IN  /\ headers' = r.headers
         /\ downloaded_bytes_so_far' = r.existing_size
         /\ total_downloaded_bytes' = r.existing_size
         /\ fs' = r.fs
  /\ session_downloaded_bytes' = 0
  /\ pc' = "request"
  /\ UNCHANGED <<op, plan, ret, pre, calls, resume_download_checksum, body,
                 written, raised, raised_at>>

\* An exception or interrupt in lines 162-173, before the try statement is
\* entered (stat() or unlink() of the partial file, the progress bar): it
\* leaves the call as it is.
ExecPrepareRaises ==
  /\ UNCHANGED <<upvars, apivars, auxvars>>
  /\ op = "execute_download_plan" /\ pc = "prepare"
  /\ \E k \in {"OSError", "KeyboardInterrupt"} : raised' = OtherError(k)
  /\ raised_at' = pc
  /\ pc' = "done"
  /\ UNCHANGED <<fs, op, plan, ret, pre, calls, locals>>

\* Lines 175-183: the request is answered with a 2xx status and the partial
\* file is opened for append.
ExecRequestOk ==
  /\ UNCHANGED <<upvars, apivars, auxvars>>
  /\ op = "execute_download_plan" /\ pc = "request"
  /\ \E serves_range \in BOOLEAN :
       /\ serves_range => RangeSatisfiable(plan, headers)
       /\ body' = ResponseBody(plan, headers, serves_range)
  /\ fs' = open_append(fs)
  /\ pc' = "stream"
  /\ UNCHANGED <<op, plan, ret, pre, calls, resume_download_checksum, headers,
                 downloaded_bytes_so_far, session_downloaded_bytes,
                 total_downloaded_bytes, written, raised, raised_at>>

\* Lines 197-203: what the except clause raises.
ExecRaise ==
  DownloadError(session_downloaded_bytes, total_downloaded_bytes,
                plan.size_bytes, plan.checksum)

\* Lines 175-182: the request raises (connection error, timeout, interrupt,
\* or an error status mapped by send_api_request).
ExecRequestFails ==
  /\ UNCHANGED <<upvars, apivars, auxvars>>
  /\ op = "execute_download_plan" /\ pc = "request"
  /\ raised' = ExecRaise
  /\ raised_at' = pc
  /\ pc' = "done"
  /\ UNCHANGED <<fs, op, plan, ret, pre, calls, locals>>

\* Lines 185-191: one non-empty chunk of at most chunk_size bytes is written.
ExecChunk ==
  /\ UNCHANGED <<upvars, apivars, auxvars>>
  /\ op = "execute_download_plan" /\ pc = "stream"
  /\ \E n \in 1..Min(ChunkSize, Len(body)) :
       LET chunk == SubSeq(body, 1, n)
       IN  /\ fs' = write_chunk(fs, chunk)
           /\ downloaded_bytes_so_far' = Len(chunk)
           /\ session_downloaded_bytes' = session_downloaded_bytes + Len(chunk)
           /\ total_downloaded_bytes' = total_after_chunk(total_downloaded_bytes, chunk)
           /\ written' = written \o chunk
           /\ body' = SubSeq(body, n + 1, Len(body))
  /\ UNCHANGED <<op, pc, plan, ret, pre, calls, resume_download_checksum,
                 headers, raised, raised_at>>

\* Lines 186-187: an empty chunk is skipped.
ExecEmptyChunk ==
  /\ op = "execute_download_plan" /\ pc = "stream"
  /\ UNCHANGED vars

\* Lines 185-203: the iteration or the write raises, or the call is
\* interrupted; the with statement closes the file.
ExecStreamFails ==
  /\ UNCHANGED <<upvars, apivars, auxvars>>
  /\ op = "execute_download_plan" /\ pc = "stream"
  /\ raised' = ExecRaise
  /\ raised_at' = pc
  /\ pc' = "done"
  /\ UNCHANGED <<fs, op, plan, ret, pre, calls, locals>>

\* The response is exhausted: the function returns None.
ExecReturn ==
  /\ UNCHANGED <<upvars, apivars, auxvars>>
  /\ op = "execute_download_plan" /\ pc = "stream"
  /\ body = <<>>
  /\ pc' = "done"
  /\ UNCHANGED <<fs, op, plan, ret, pre, calls, locals, raised, raised_at>>

ExecuteDownloadPlan ==
  \/ ExecCall
  \/ ExecPrepare
  \/ ExecPrepareRaises
  \/ ExecRequestOk
  \/ ExecRequestFails
  \/ ExecChunk
  \/ ExecEmptyChunk
  \/ ExecStreamFails
  \/ ExecReturn

\* ------------------------------------------------------------ datasets.py
\* DownloadError(downloaded_bytes, download_plan.checksum), line 147: the
\* constructor of errors.py takes four positional arguments, so the call
\* itself raises TypeError.
DownloadErrorTwoArgs(downloaded_bytes, checksum) == OtherError("TypeError")

\* download_plan.tmp_path.replace(download_plan.target_path), line 194.
replace(f) ==
  [f EXCEPT ![target_filepath] = f[tmp_filepath], ![tmp_filepath] = Absent]

\* The overwrite_existing arguments of a call: line 185 reads the argument
\* only when the target exists, so a call that finds no target is made with
\* the default.
OverwriteArgs(f) == IF f[target_filepath].exists THEN BOOLEAN ELSE {FALSE}
SaveCall(oe) == [fn |-> "save_dataset_to_disk", overwrite_existing |-> oe]

\* Line 185.
skips_existing(target_exists, oe) == target_exists

skips_download(target_exists, oe) == target_exists /\ ~oe

\* Lines 176-182: the plan is fetched and the caller's resume checksum is
\* not the plan's.
SaveResumeMismatch ==
  /\ UNCHANGED <<upvars, api_key, api_sent, api_result, auxvars>>
  /\ Idle
  /\ \E p \in Plans, rc \in ResumeArgs, oe \in OverwriteArgs(fs) :
       /\ Truthy(rc) /\ rc # p.checksum
       /\ Enter("save_dataset_to_disk", p, rc)
       /\ api_call' = SaveCall(oe)
       /\ raised' = OtherError("ValueError")
  /\ ret' = NoneV
  /\ pc' = "done"
  /\ UNCHANGED fs

\* Lines 184-190: the target exists and overwrite_existing is false.
SaveSkipsExisting ==
  /\ UNCHANGED <<upvars, api_key, api_sent, api_result, auxvars>>
  /\ Idle
  /\ \E p \in Plans, rc \in ResumeArgs, oe \in OverwriteArgs(fs) :
       /\ ~(Truthy(rc) /\ rc # p.checksum)
       /\ skips_download(fs[target_filepath].exists, oe)
       /\ Enter("save_dataset_to_disk", p, rc)
       /\ api_call' = SaveCall(oe)
  /\ ret' = Some(target_filepath)
  /\ raised' = NoError
  /\ pc' = "done"
  /\ UNCHANGED fs

\* Line 192: _execute_download_plan is called.
SaveBegins ==
  /\ UNCHANGED <<upvars, api_key, api_sent, api_result, auxvars>>
  /\ Idle
  /\ \E p \in Plans, rc \in ResumeArgs, oe \in OverwriteArgs(fs) :
       /\ ~(Truthy(rc) /\ rc # p.checksum)
       /\ ~skips_download(fs[target_filepath].exists, oe)
       /\ Enter("_execute_download_plan", p, rc)
       /\ api_call' = SaveCall(oe)
  /\ ret' = NoneV
  /\ raised' = NoError
  /\ pc' = "prepare"
  /\ UNCHANGED fs

\* _execute_download_plan, lines 108-110.
SaveExecPrepare ==
  /\ UNCHANGED <<upvars, apivars, auxvars>>
  /\ op = "_execute_download_plan" /\ pc = "prepare"
  /\ LET r == _prepare_download_headers(fs, resume_download_checksum)
     IN  /\ headers' = r.headers
         /\ downloaded_bytes_so_far' = r.existing_size
         /\ fs' = r.fs
  /\ pc' = "request"
  /\ UNCHANGED <<op, plan, ret, pre, calls, resume_download_checksum,
                 session_downloaded_bytes, total_downloaded_bytes, body,
                 written, raised, raised_at>>

\* An exception or interrupt in lines 108-116, before the try statement.
SaveExecPrepareRaises ==
  /\ UNCHANGED <<upvars, apivars, auxvars>>
  /\ op = "_execute_download_plan" /\ pc = "prepare"
  /\ \E k \in {"OSError", "KeyboardInterrupt"} : raised' = OtherError(k)
  /\ raised_at' = pc
  /\ pc' = "done"
  /\ UNCHANGED <<fs, op, plan, ret, pre, calls, locals>>

\* Lines 118-135: a 2xx response whose checksum, when the plan has one, is the
\* plan's; the partial file is opened for append.
SaveExecRequestOk ==
  /\ UNCHANGED <<upvars, apivars, auxvars>>
  /\ op = "_execute_download_plan" /\ pc = "request"
  /\ \E serves_range \in BOOLEAN :
       /\ serves_range => RangeSatisfiable(plan, headers)
       /\ body' = ResponseBody(plan, headers, serves_range)
  /\ fs' = open_append(fs)
  /\ pc' = "stream"
  /\ UNCHANGED <<op, plan, ret, pre, calls, resume_download_checksum, headers,
                 downloaded_bytes_so_far, session_downloaded_bytes,
                 total_downloaded_bytes, written, raised, raised_at>>

\* Lines 146-147: what the except clause raises.
SaveExecRaise == DownloadErrorTwoArgs(downloaded_bytes_so_far, plan.checksum)

\* Lines 118-124: the request raises or raise_for_status() does.
SaveExecRequestFails ==
  /\ UNCHANGED <<upvars, apivars, auxvars>>
  /\ op = "_execute_download_plan" /\ pc = "request"
  /\ raised' = SaveExecRaise
  /\ raised_at' = pc
  /\ pc' = "done"
  /\ UNCHANGED <<fs, op, plan, ret, pre, calls, locals>>

\* Lines 126-131: the plan has a checksum and the response's differs; the
\* ValueError is raised inside the try statement.
SaveExecChecksumMismatch ==
  /\ UNCHANGED <<upvars, apivars, auxvars>>
  /\ op = "_execute_download_plan" /\ pc = "request"
  /\ Truthy(plan.checksum)
  /\ raised' = SaveExecRaise
  /\ raised_at' = pc
  /\ pc' = "done"
  /\ UNCHANGED <<fs, op, plan, ret, pre, calls, locals>>

\* Lines 136-140: one non-empty chunk is written.
SaveExecChunk ==
  /\ UNCHANGED <<upvars, apivars, auxvars>>
  /\ op = "_execute_download_plan" /\ pc = "stream"
  /\ \E n \in 1..Min(ChunkSize, Len(body)) :
       LET chunk == SubSeq(body, 1, n)
       IN  /\ fs' = write_chunk(fs, chunk)
           /\ downloaded_bytes_so_far' = Len(chunk)
           /\ written' = written \o chunk
           /\ body' = SubSeq(body, n + 1, Len(body))
  /\ UNCHANGED <<op, pc, plan, ret, pre, calls, resume_download_checksum,
                 headers, session_downloaded_bytes, total_downloaded_bytes,
                 raised, raised_at>>

\* Lines 137-138: an empty chunk is skipped.
SaveExecEmptyChunk ==
  /\ op = "_execute_download_plan" /\ pc = "stream"
  /\ UNCHANGED vars

\* Lines 136-147: the iteration or the write raises, or the call is
\* interrupted.
SaveExecStreamFails ==
  /\ UNCHANGED <<upvars, apivars, auxvars>>
  /\ op = "_execute_download_plan" /\ pc = "stream"
  /\ raised' = SaveExecRaise
  /\ raised_at' = pc
  /\ pc' = "done"
  /\ UNCHANGED <<fs, op, plan, ret, pre, calls, locals>>

\* The response is exhausted: control is back in save_dataset_to_disk.
SaveExecReturn ==
  /\ UNCHANGED <<upvars, apivars, auxvars>>
  /\ op = "_execute_download_plan" /\ pc = "stream"
  /\ body = <<>>
  /\ op' = "save_dataset_to_disk"
  /\ pc' = "commit"
  /\ UNCHANGED <<fs, plan, ret, pre, calls, locals, raised, raised_at>>

\* Lines 194-196: the partial file is renamed to the target.
SaveCommit ==
  /\ UNCHANGED <<upvars, apivars, auxvars>>
  /\ op = "save_dataset_to_disk" /\ pc = "commit"
  /\ fs' = replace(fs)
  /\ ret' = Some(target_filepath)
  /\ pc' = "done"
  /\ UNCHANGED <<op, plan, pre, calls, locals, raised, raised_at>>

SaveDatasetToDisk ==
  \/ SaveResumeMismatch
  \/ SaveSkipsExisting
  \/ SaveBegins
  \/ SaveExecPrepare
  \/ SaveExecPrepareRaises
  \/ SaveExecRequestOk
  \/ SaveExecRequestFails
  \/ SaveExecChecksumMismatch
  \/ SaveExecChunk
  \/ SaveExecEmptyChunk
  \/ SaveExecStreamFails
  \/ SaveExecReturn
  \/ SaveCommit

Next ==
  \/ DetermineResumeState
  \/ ExecuteDownloadPlan
  \/ SaveDatasetToDisk

Spec == Init /\ [][Next]_vars

\* ======================================= upload_dataset_file (upload.py)
\* The state files a call can find: none, one cut short by an interrupted
\* write, one written by an earlier attempt on this archive (the parts put
\* so far, or all of them and the checksum), and ones whose part list or
\* fields are not what an attempt on this archive writes.
OldETag(i) == <<IF i = 1 THEN "f" ELSE "g">>
OldParts(numbers) == [i \in 1..Len(numbers) |-> UploadPart(numbers[i], OldETag(i))]

PartNumberLists ==
  {<<>>} \cup {<<n>> : n \in 0..MaxPartNumber}
         \cup {<<n, m>> : n \in 1..2, m \in 1..2}

OldState(part_size, parts, checksum) ==
  UploadState("s1", SessionId(0), SessionId(0), FileLen, part_size, path_name, mime_type, parts, checksum)

CompletedState(part_size) ==
  OldState(part_size,
           [i \in 1.._expected_parts(FileLen, part_size) |->
              UploadPart(i, <<"f">>)],
           hexdigest(SourceBytes))

InitStateFiles ==
  {NoStateFile, CutStateFile}
    \cup {StateFile(OldState(ps, OldParts(l), NoneV)) :
            ps \in PartSizes, l \in PartNumberLists}
    \cup {StateFile(CompletedState(ps)) : ps \in PartSizes}
    \cup {StateFile([OldState(1, OldParts(<<1>>), NoneV)
                       EXCEPT !.fileUploadId = <<>>]),
          StateFile(OldState(0, OldParts(<<1>>), NoneV)),
          StateFile([OldState(1, OldParts(<<1>>), NoneV)
                       EXCEPT !.filename = "f2"])}

\* The archive a call is pointed at: the archive, an empty file, no file.
InitSourceFiles == {File(SourceBytes), File(<<>>), Absent}

InitUpload ==
  /\ fs = (tmp_filepath :> Absent) @@ (checksum_filepath :> Absent)
          @@ (target_filepath :> Absent)
  /\ DownloadNotStarted
  /\ \E f \in InitSourceFiles :
       source_exists = f.exists /\ source_file = f.data
  /\ state_file \in InitStateFiles
  /\ UploadNotStarted
  /\ AuxNotStarted
  /\ ApiNotStarted

\* The locals the part loop and the checks use.
expected_parts == _expected_parts(state.v.fileSize, state.v.partSize)
part_number == part_index + 1

requests == <<initiated, url_requests, puts, completions>>
loop_locals == <<parts_by_number, hasher, bytes_read, part_index, chunk_read, presigned_url>>
call_args == <<submission_id, final_filename, resume, file_size, pre_state_file, uploads>>

\* The call ends by raising `e`.
Raise(e) ==
  /\ uraised' = e
  /\ upc' = "done"

\* Lines 189-195: the file must exist and hold at least one byte.
check_file_exists(exists, size) ==
  IF ~exists THEN "FileNotFoundError" ELSE "none"

check_file(exists, size) ==
  IF ~exists THEN "FileNotFoundError"
  ELSE IF size <= 0 THEN "ValueError: empty file"
  ELSE "none"

\* Lines 185-210: the arguments, the file that must exist and not be empty,
\* its size, the state loaded when `resume` is true and kept when it is for
\* this file and submission.
upload_dataset_file(sid, name, resuming) ==
  /\ submission_id' = sid
  /\ final_filename' = name
  /\ resume' = resuming
  /\ file_size' = Len(source_file)
  /\ LET loaded == IF resuming THEN load_upload_state(state_file)
                   ELSE [raised |-> "none", ret |-> NoState]
         kept == IF loaded.ret.some
                    /\ state_mismatch(loaded.ret.v, Len(source_file), name, sid)
                 THEN NoState ELSE loaded.ret
         checked == check_file(source_exists, Len(source_file))
     IN  IF checked # "none"
         THEN Raise(checked) /\ state' = NoState
         ELSE /\ state' = kept
              /\ IF loaded.raised # "none" THEN Raise(loaded.raised)
                 ELSE /\ uraised' = "none"
                      /\ upc' = IF kept.some THEN "prepare"
                                ELSE "initiate"
  /\ session' = NoSession
  /\ parts_by_number' = EmptyDict
  /\ hasher' = <<>>
  /\ bytes_read' = 0
  /\ part_index' = 0
  /\ chunk_read' = <<>>
  /\ presigned_url' = ""
  /\ pre_state_file' = state_file
  /\ initiated' = 0
  /\ url_requests' = <<>>
  /\ puts' = <<>>
  /\ completions' = <<>>
  /\ UNCHANGED <<source_exists, source_file, state_file, sessions, edited>>
  /\ UNCHANGED <<dlvars, auxvars>>

UploadCall ==
  /\ upc \in {"idle", "done"}
  /\ uploads < MaxUploads
  /\ uploads' = uploads + 1
  /\ \E s \in SubmissionIds, n \in {path_name}, r \in BOOLEAN :
       upload_dataset_file(s, n, r)
  /\ UNCHANGED apivars

\* Lines 214-227: initiate_upload refuses a blank submission id (line 89);
\* the server opens a session; the new state has no parts.
SessionInvalid(s) == s.fileUploadId = <<>> \/ s.uploadId = <<>> \/ s.partSize <= 0

\* Line 228: the new state is saved before anything else is done.
after_initiate_unsaved == "prepare"

after_initiate == "save_initial"

InitiateUpload ==
  /\ upc = "initiate"
  /\ sessions' = IF is_blank(submission_id) THEN sessions ELSE sessions + 1
  /\ initiated' = IF is_blank(submission_id) THEN initiated ELSE initiated + 1
  /\ \E r \in InitiateResponses(sessions + 1) :
       IF is_blank(submission_id)
       THEN /\ Raise("ValueError")
            /\ UNCHANGED <<state, session>>
       ELSE IF SessionInvalid(r)
       THEN /\ Raise("RuntimeError: initiation")
            /\ UNCHANGED <<state, session>>
       ELSE /\ session' = Some(r)
            /\ state' = Some(UploadState(submission_id, r.fileUploadId, r.uploadId, file_size, r.partSize, final_filename, mime_type, <<>>, NoneV))
            /\ upc' = after_initiate
            /\ UNCHANGED uraised
  /\ stored' = EmptyDict
  /\ expired' = FALSE
  /\ UNCHANGED <<source_exists, source_file, state_file, edited, call_args, loop_locals,
                 url_requests, puts, completions>>
  /\ UNCHANGED <<dlvars, apivars, runs>>

\* save_upload_state, line 306: write_text opens the file for writing, which
\* empties it, then writes the JSON text.
SavePcs == {"save_initial", "save_part", "save_final"}
WritePcs == {"write_initial", "write_part", "write_final"}
WriteOf(at) ==
  CASE at = "save_initial" -> "write_initial"
    [] at = "save_part" -> "write_part"
    [] at = "save_final" -> "write_final"
AfterSave(at) ==
  CASE at = "write_initial" -> "prepare"
    [] at = "write_part" -> "loop"
    [] at = "write_final" -> "complete"

SaveOpens ==
  /\ upc \in SavePcs
  /\ state_file' = CutStateFile
  /\ upc' = WriteOf(upc)
  /\ UNCHANGED <<source_exists, source_file, edited, call_args, state, session, sessions,
                 loop_locals, uraised, requests>>
  /\ UNCHANGED <<dlvars, apivars, auxvars>>

\* The text is written and control returns; after a part's save the loop
\* goes on to the next index.
SaveWrites ==
  /\ upc \in WritePcs
  /\ state_file' = StateFile(state.v)
  /\ upc' = AfterSave(upc)
  /\ part_index' = IF upc = "write_part" THEN part_index + 1 ELSE part_index
  /\ UNCHANGED <<source_exists, source_file, edited, call_args, state, session, sessions,
                 parts_by_number, hasher, bytes_read, chunk_read,
                 presigned_url, uraised, requests>>
  /\ UNCHANGED <<dlvars, apivars, auxvars>>

\* Lines 230-238.
PrepareLoop ==
  /\ upc = "prepare"
  /\ IF expected_parts <= 0
     THEN Raise("RuntimeError: expected parts") /\ UNCHANGED parts_by_number
     ELSE /\ parts_by_number' = _normalize_parts(state.v)
          /\ upc' = "loop"
          /\ UNCHANGED uraised
  /\ UNCHANGED <<source_exists, source_file, state_file, edited, call_args, state, session,
                 sessions, hasher, bytes_read, part_index, chunk_read,
                 presigned_url, requests>>
  /\ UNCHANGED <<dlvars, apivars, auxvars>>

\* Line 247: part_number in parts_by_number.
never_recorded(d, n) == FALSE

already_recorded(d, n) == d[n].some

\* Lines 239-248: the next chunk is read and hashed; a recorded part is
\* skipped; the loop ends after the last index or on an empty read.
ReadChunk ==
  /\ upc = "loop"
  /\ LET c == read(source_file, bytes_read, state.v.partSize)
     IN  IF part_index >= expected_parts \/ c = <<>>
         THEN /\ upc' = "verify"
              /\ UNCHANGED <<hasher, bytes_read, part_index, chunk_read>>
         ELSE /\ chunk_read' = c
              /\ bytes_read' = bytes_read + Len(c)
              /\ hasher' = update(hasher, c)
              /\ IF already_recorded(parts_by_number, part_number)
                 THEN upc' = "loop" /\ part_index' = part_index + 1
                 ELSE upc' = "url" /\ UNCHANGED part_index
  /\ UNCHANGED <<source_exists, source_file, state_file, edited, call_args, state, session,
                 sessions, parts_by_number, presigned_url, uraised, requests>>
  /\ UNCHANGED <<dlvars, apivars, auxvars>>

\* Lines 250-257: the URL the initiation gave for this part, or one asked of
\* the server for this chunk index.
SessionUrlUsable ==
  session.some /\ part_number = session.v.partNumber /\ session.v.presignedUrl # ""

GetPresignedUrl ==
  /\ upc = "url"
  /\ IF SessionUrlUsable
     THEN /\ presigned_url' = session.v.presignedUrl
          /\ UNCHANGED url_requests
     ELSE /\ url_requests' = Append(url_requests, part_index)
          /\ \E u \in PresignedUrls : presigned_url' = u
  /\ upc' = "put"
  /\ UNCHANGED <<source_exists, source_file, state_file, edited, call_args, state, session,
                 sessions, parts_by_number, hasher, bytes_read, part_index,
                 chunk_read, uraised, initiated, puts, completions>>
  /\ UNCHANGED <<dlvars, apivars, auxvars>>

\* Lines 259-262: the part is PUT and answered 2xx; its ETag is recorded.
\* The store answers 2xx only to a URL that has not expired.
record_part_hashed(s, number, etag) ==
  [s EXCEPT !.parts = Append(@, UploadPart(number, etag)),
            !.checksum = Some(<<etag>>)]

record_part(s, number, etag) == [s EXCEPT !.parts = Append(@, UploadPart(number, etag))]

PutPart ==
  /\ upc = "put"
  /\ ~(expired /\ SessionUrlUsable)
  /\ IF presigned_url = ""
     THEN /\ Raise("ValueError")
          /\ UNCHANGED <<puts, parts_by_number, state, stored>>
     ELSE /\ puts' = Append(puts, part_number)
          /\ stored' = [stored EXCEPT ![part_number] = Some(chunk_read)]
          /\ \E h \in ETagHeaders :
               LET e == _extract_etag(h)
               IN  IF e.raised
                   THEN /\ Raise("RuntimeError: ETag")
                        /\ UNCHANGED <<parts_by_number, state>>
                   ELSE /\ parts_by_number' =
                             [parts_by_number EXCEPT ![part_number] = Some(e.etag)]
                        /\ state' = Some(record_part(state.v, part_number, e.etag))
                        /\ upc' = "save_part"
                        /\ UNCHANGED uraised
  /\ UNCHANGED <<source_exists, source_file, state_file, edited, call_args, session, sessions,
                 hasher, bytes_read, part_index, chunk_read, presigned_url,
                 initiated, url_requests, completions>>
  /\ UNCHANGED <<dlvars, apivars, expired, runs>>

\* Lines 265-281: the two checks, then the checksum and the sorted parts.
size_unchecked == TRUE

SizeUnchanged == bytes_read = state.v.fileSize

count_unchecked == TRUE

AllPartsRecorded == Cardinality(Keys(parts_by_number)) = expected_parts
final_state(s, d, h) == [s EXCEPT !.checksum = hexdigest(h), !.parts = sorted_items(d, 1)]

Verify ==
  /\ upc = "verify"
  /\ IF ~SizeUnchanged \/ ~AllPartsRecorded
     THEN /\ Raise(IF ~SizeUnchanged THEN "RuntimeError: size changed"
                   ELSE "RuntimeError: incomplete")
          /\ UNCHANGED state
     ELSE /\ state' = Some(final_state(state.v, parts_by_number, hasher))
          /\ upc' = "save_final"
          /\ UNCHANGED uraised
  /\ UNCHANGED <<source_exists, source_file, state_file, edited, call_args, session, sessions,
                 loop_locals, requests>>
  /\ UNCHANGED <<dlvars, apivars, auxvars>>

\* Lines 284-285: complete_upload is answered 2xx; the state is returned.
CompleteUpload ==
  /\ upc = "complete"
  /\ completions' = Append(completions, [fileUploadId |-> state.v.fileUploadId, uploadId |-> state.v.uploadId, parts |-> state.v.parts, checksum |-> state.v.checksum])
  /\ upc' = "done"
  /\ UNCHANGED <<source_exists, source_file, state_file, edited, call_args, state, session,
                 sessions, loop_locals, uraised, initiated, url_requests, puts>>
  /\ UNCHANGED <<dlvars, apivars, auxvars>>

\* A request is refused or the connection fails: send_api_request or
\* raise_for_status raises.
RequestPcs == {"initiate", "url", "put", "complete"}

RequestFails ==
  /\ upc \in RequestPcs
  /\ upc = "url" => ~SessionUrlUsable
  /\ upc = "put" => presigned_url # ""
  /\ Raise("HTTPError")
  /\ UNCHANGED <<source_exists, source_file, state_file, edited, call_args, state, session,
                 sessions, loop_locals, requests>>
  /\ UNCHANGED <<dlvars, apivars, auxvars>>

\* The process is interrupted or killed where it stands.
Interrupted ==
  /\ upc \notin {"idle", "done"}
  /\ Raise("KeyboardInterrupt")
  /\ UNCHANGED <<source_exists, source_file, state_file, edited, call_args, state, session,
                 sessions, loop_locals, requests>>
  /\ UNCHANGED <<dlvars, apivars, auxvars>>

\* Another process shortens or lengthens the archive by one byte.
SourceEdits ==
  {SubSeq(source_file, 1, Len(source_file) - 1), Append(source_file, Len(source_file) + 1)}

SourceFileChanges ==
  /\ source_exists
  /\ ~edited
  /\ edited' = TRUE
  /\ \E b \in SourceEdits : b # <<>> /\ source_file' = b
  /\ UNCHANGED <<source_exists, state_file, upc, call_args, state, session,
                 sessions, loop_locals, uraised, requests>>
  /\ UNCHANGED <<dlvars, apivars, auxvars>>

NextUpload ==
  \/ UploadCall
  \/ InitiateUpload
  \/ SaveOpens
  \/ SaveWrites
  \/ PrepareLoop
  \/ ReadChunk
  \/ GetPresignedUrl
  \/ PutPart
  \/ Verify
  \/ CompleteUpload
  \/ RequestFails
  \/ Interrupted
  \/ SourceFileChanges

SpecUpload == InitUpload /\ [][NextUpload]_vars

\* ================================== the caller's retries of an upload
\* After a failure the caller calls upload_dataset_file again for the same
\* archive and submission with resume=True.  Between two attempts another
\* process may rewrite the archive, keeping its length; while a session is
\* open, time may pass the expiresAt of its URL.  `uploads` does not count
\* the attempts, which are not bounded; the caller gives up once
\* MaxSessions sessions have been opened.
UploadFailed == upc = "done" /\ uraised # "none"

InitUploadRetry ==
  /\ fs = (tmp_filepath :> Absent) @@ (checksum_filepath :> Absent)
          @@ (target_filepath :> Absent)
  /\ DownloadNotStarted
  /\ source_exists = TRUE
  /\ source_file = SourceBytes
  /\ state_file = NoStateFile
  /\ UploadNotStarted
  /\ AuxNotStarted
  /\ ApiNotStarted

UploadRetry ==
  /\ upc = "idle" \/ UploadFailed
  /\ sessions < MaxSessions
  /\ upload_dataset_file("s1", path_name, TRUE)
  /\ UNCHANGED <<uploads, apivars>>

\* Every byte of the archive is replaced; its length is kept.
Rewritten(bytes) == [i \in 1..Len(bytes) |-> bytes[i] + 10]

SourceContentChanges ==
  /\ UploadFailed
  /\ ~edited
  /\ edited' = TRUE
  /\ source_file' = Rewritten(source_file)
  /\ UNCHANGED <<source_exists, state_file, upc, call_args, state, session,
                 sessions, loop_locals, uraised, requests>>
  /\ UNCHANGED <<dlvars, apivars, auxvars>>

UrlExpires ==
  /\ upc \notin {"idle", "done"}
  /\ session.some
  /\ ~expired
  /\ expired' = TRUE
  /\ UNCHANGED <<upvars, dlvars, apivars, stored, runs>>

NextUploadRetry ==
  \/ UploadRetry
  \/ InitiateUpload
  \/ SaveOpens
  \/ SaveWrites
  \/ PrepareLoop
  \/ ReadChunk
  \/ GetPresignedUrl
  \/ PutPart
  \/ Verify
  \/ CompleteUpload
  \/ RequestFails
  \/ Interrupted
  \/ SourceContentChanges
  \/ UrlExpires

\* The caller goes on retrying and a call that has started goes on running;
\* nothing obliges the archive to be rewritten or the URL to expire.
\* Interrupts and refused requests do not recur for ever: a step that could
\* succeed again and again eventually does, every request included and the
\* read of each chunk.
SpecUploadRetry ==
  /\ InitUploadRetry
  /\ [][NextUploadRetry]_vars
  /\ WF_vars(NextUploadRetry /\ ~SourceContentChanges /\ ~UrlExpires)
  /\ SF_vars(InitiateUpload /\ upc' = after_initiate)
  /\ SF_vars(SaveOpens)
  /\ SF_vars(SaveWrites)
  /\ SF_vars(PrepareLoop)
  /\ \A k \in 0..MaxPartNumber : SF_vars(ReadChunk /\ part_index = k)
  /\ SF_vars(GetPresignedUrl /\ presigned_url' # "")
  /\ SF_vars(PutPart /\ upc' = "save_part")
  /\ SF_vars(Verify)
  /\ SF_vars(CompleteUpload)

\* ===================================== submissions.py: draft, upload, submit
\* What the draft response holds under "submissionId": nothing, the empty
\* text, a blank text or an id.
DraftIds == {NoText, [some |-> TRUE, v |-> ""], [some |-> TRUE, v |-> " "],
             [some |-> TRUE, v |-> "s1"]}

\* What submission_fields holds under "fileUploadId": nothing, the empty
\* text, or the id of some session.
FieldsUploadIds == {NoneV, Some(<<>>)} \cup {Some(SessionId(n)) : n \in 0..2}

\* One remote request of the helper.
SubmissionRequest(request, submission, file_upload_id) ==
  [request |-> request, submission_id |-> submission,
   fileUploadId |-> file_upload_id]

Submitting ==
  /\ api_call # NoCall
  /\ api_call.fn = "create_submission_with_upload"
  /\ api_result = NoResult

\* Lines 90-93: the fields name another upload.
never_mismatched(payload_id, upload_id) == FALSE

fields_mismatch(payload_id, upload_id) == Truthy(payload_id) /\ payload_id.v # upload_id

\* create_submission_with_upload, lines 71-83: the draft is created; without
\* a submissionId the helper raises, with one upload_dataset_file is called.
CreateSubmissionWithUpload ==
  /\ api_call = NoCall
  /\ upc = "idle"
  /\ \E draft_answered \in BOOLEAN, draft \in DraftIds,
        fields \in FieldsUploadIds, r \in BOOLEAN :
       /\ api_call' = [fn |-> "create_submission_with_upload",
                       draft |-> draft, fileUploadId |-> fields, resume |-> r]
       /\ api_sent' = <<SubmissionRequest("draft", "", <<>>)>>
       /\ IF ~draft_answered
          THEN /\ api_result' = [raised |-> "HTTPError", ret |-> NoneV]
               /\ UNCHANGED upvars
          ELSE IF ~draft.some \/ draft.v = ""
          THEN /\ api_result' = [raised |-> "RuntimeError", ret |-> NoneV]
               /\ UNCHANGED upvars
          ELSE /\ api_result' = NoResult
               /\ upload_dataset_file(draft.v, path_name, r)
               /\ uploads' = uploads + 1
  /\ UNCHANGED <<dlvars, auxvars, api_key>>

\* Lines 76-101 once upload_dataset_file has ended: what it raised is
\* raised; fields that name another upload raise ValueError; otherwise
\* submit_submission (lines 39-45) refuses a blank id, validates the fields
\* and posts them with the upload's fileUploadId.
SubmitAfterUpload ==
  /\ Submitting
  /\ upc = "done"
  /\ \E fields_valid \in BOOLEAN, submit_answered \in BOOLEAN :
       LET submit == SubmissionRequest("submit", submission_id, state.v.fileUploadId)
       IN  IF uraised # "none"
           THEN /\ api_result' = [raised |-> uraised, ret |-> NoneV]
                /\ UNCHANGED api_sent
           ELSE IF fields_mismatch(api_call.fileUploadId, state.v.fileUploadId)
           THEN /\ api_result' = [raised |-> "ValueError", ret |-> NoneV]
                /\ UNCHANGED api_sent
           ELSE IF ~fields_valid
           THEN /\ api_result' = [raised |-> "ValidationError", ret |-> NoneV]
                /\ UNCHANGED api_sent
           ELSE IF is_blank(submission_id)
           THEN /\ api_result' = [raised |-> "ValueError", ret |-> NoneV]
                /\ UNCHANGED api_sent
           ELSE /\ api_sent' = Append(api_sent, submit)
                /\ api_result' =
                     IF submit_answered
                     THEN [raised |-> "none", ret |-> Some(state.v.fileUploadId)]
                     ELSE [raised |-> "HTTPError", ret |-> NoneV]
  /\ UNCHANGED <<dlvars, upvars, auxvars, api_key, api_call>>

\* The steps of upload_dataset_file run only inside the helper's call.
NextSubmit ==
  \/ CreateSubmissionWithUpload
  \/ InitiateUpload
  \/ SaveOpens
  \/ SaveWrites
  \/ PrepareLoop
  \/ ReadChunk
  \/ GetPresignedUrl
  \/ PutPart
  \/ Verify
  \/ CompleteUpload
  \/ RequestFails
  \/ Interrupted
  \/ SubmitAfterUpload

SpecSubmit == InitUpload /\ [][NextSubmit]_vars

\* ======================= the functions of the client, called on their own
\* The dataset ids a caller passes.
DatasetIds == UNION {TextsOfLen(n) : n \in 0..MaxIdLen}

\* A function is called in a process that has called none (NotCalled), and
\* has ended (Called).
NotCalled == api_call = NoCall

Called(call, r, returned_value) ==
  /\ api_call' = call
  /\ api_sent' = r.sent
  /\ api_result' = [raised |-> r.raised, ret |-> returned_value]
  /\ UNCHANGED api_key

CallSendApiRequest ==
  /\ NotCalled
  /\ \E method \in {"GET", "POST"}, extra_headers \in RangeHeaders,
        include_auth_headers \in BOOLEAN, status \in Statuses :
       LET r == send_api_request(api_key, method, "api", extra_headers, include_auth_headers, status)
       IN  Called([fn |-> "send_api_request", method |-> method,
                   extra_headers |-> extra_headers,
                   include_auth_headers |-> include_auth_headers,
                   status |-> status],
                  r, IF r.returned THEN Some(<<status>>) ELSE NoneV)
  /\ UNCHANGED <<dlvars, upvars, auxvars>>

DownloadUrlRequest ==
  /\ NotCalled
  /\ \E extra_headers \in RangeHeaders, status \in Statuses :
       LET r == send_api_request(api_key, "GET", "download_url", extra_headers, download_include_auth_headers, status)
       IN  Called([fn |-> "execute_download_plan", extra_headers |-> extra_headers,
                   status |-> status],
                  r, IF r.returned THEN Some(<<status>>) ELSE NoneV)
  /\ UNCHANGED <<dlvars, upvars, auxvars>>

DatasetsDownloadUrlRequest ==
  /\ NotCalled
  /\ \E extra_headers \in RangeHeaders, status \in Statuses :
       LET r == requests_get("download_url", extra_headers, status)
       IN  Called([fn |-> "_execute_download_plan",
                   extra_headers |-> extra_headers, status |-> status],
                  r, IF r.returned THEN Some(<<status>>) ELSE NoneV)
  /\ UNCHANGED <<dlvars, upvars, auxvars>>

CallUploadPart ==
  /\ NotCalled
  /\ \E url \in PresignedUrls, status \in Statuses :
       LET r == _upload_part(url, status)
       IN  Called([fn |-> "_upload_part", presigned_url |-> url,
                   status |-> status],
                  r, IF r.returned THEN Some(<<status>>) ELSE NoneV)
  /\ UNCHANGED <<dlvars, upvars, auxvars>>

CallGetDownloadPlan ==
  /\ NotCalled
  /\ \E dataset_id \in DatasetIds, writable \in BOOLEAN, status \in Statuses,
        payload \in DownloadPayloads :
       LET r == get_download_plan(dataset_id, writable, api_key, status, payload)
       IN  Called([fn |-> "get_download_plan", dataset_id |-> dataset_id,
                   status |-> status, payload |-> payload],
                  r, r.ret)
  /\ UNCHANGED <<dlvars, upvars, auxvars>>

CallGetDownloadPlanOfDatasets ==
  /\ NotCalled
  /\ \E dataset_id \in DatasetIds, writable \in BOOLEAN, status \in Statuses,
        payload \in DownloadPayloads :
       LET r == _get_download_plan(dataset_id, writable, api_key, status, payload)
       IN  Called([fn |-> "_get_download_plan", dataset_id |-> dataset_id,
                   status |-> status, payload |-> payload],
                  r, r.ret)
  /\ UNCHANGED <<dlvars, upvars, auxvars>>

CallGetDatasetDetails ==
  /\ NotCalled
  /\ \E dataset_id \in DatasetIds, status \in Statuses :
       LET r == get_dataset_details(dataset_id, api_key, status)
       IN  Called([fn |-> "get_dataset_details", dataset_id |-> dataset_id,
                   status |-> status],
                  r, IF r.returned THEN Some(<<status>>) ELSE NoneV)
  /\ UNCHANGED <<dlvars, upvars, auxvars>>

CallGetPresignedPartUrl ==
  /\ NotCalled
  /\ \E file_upload_id \in {<<>>, <<" ">>, <<"a">>}, chunk_index \in ChunkIndexes,
        status \in Statuses, data \in PartUrlAnswers :
       LET r == get_presigned_part_url(file_upload_id, chunk_index, api_key, status, data)
       IN  Called([fn |-> "get_presigned_part_url",
                   file_upload_id |-> file_upload_id,
                   chunk_index |-> chunk_index, status |-> status,
                   data |-> data],
                  r, r.ret)
  /\ UNCHANGED <<dlvars, upvars, auxvars>>

CallInitiateUpload ==
  /\ NotCalled
  /\ \E sid \in {<<>>, <<" ">>, <<"a">>}, size \in -1..1,
        status \in Statuses, data \in InitiateAnswers :
       LET r == initiate_upload(sid, size, api_key, status, data)
       IN  Called([fn |-> "initiate_upload", submission_id |-> sid,
                   file_size |-> size, status |-> status, data |-> data],
                  r, r.ret)
  /\ UNCHANGED <<dlvars, upvars, auxvars>>

\* The states a caller may hand to save_upload_state: any values of the
\* fields' types, the parts being UploadPart objects (partNumber >= 1).
PartLists ==
  LET Parts == {UploadPart(n, e) : n \in 1..2, e \in {<<>>, <<"e">>}}
  IN  {<<>>} \cup {<<a>> : a \in Parts} \cup {<<a, b>> : a \in Parts, b \in Parts}
UploadStates ==
  {UploadState(sid, fid, uid, fsize, psize, path_name, mime_type, parts, sum) :
     sid \in {"", "s1"}, fid \in {<<>>, <<1>>}, uid \in {<<>>, <<1>>},
     fsize \in {0, FileLen}, psize \in {0, 1}, parts \in PartLists,
     sum \in {NoneV, hexdigest(SourceBytes)}}

\* save_upload_state, upload.py 304-306, run to its end.
SaveUploadState ==
  /\ NotCalled
  /\ \E s \in UploadStates :
       /\ state_file' = StateFile(s)
       /\ api_call' = [fn |-> "save_upload_state", state |-> s]
  /\ api_result' = NoResult
  /\ UNCHANGED <<api_key, api_sent>>
  /\ UNCHANGED <<source_exists, source_file, upc, call_args, state, session,
                 sessions, edited, loop_locals, uraised, requests>>
  /\ UNCHANGED <<dlvars, auxvars>>

\* load_upload_state, upload.py 288-301, on the path last saved to.
LoadUploadState ==
  /\ api_call.fn \in {"none", "save_upload_state"}
  /\ api_call' = [fn |-> "load_upload_state"]
  /\ LET r == load_upload_state(state_file)
     IN  api_result' = [raised |-> r.raised, ret |-> r.ret]
  /\ UNCHANGED <<api_key, api_sent>>
  /\ UNCHANGED <<dlvars, upvars, auxvars>>

InitApi ==
  /\ fs = (tmp_filepath :> Absent) @@ (checksum_filepath :> Absent)
          @@ (target_filepath :> Absent)
  /\ DownloadNotStarted
  /\ source_exists = TRUE
  /\ source_file = SourceBytes
  /\ state_file = NoStateFile
  /\ UploadNotStarted
  /\ AuxNotStarted
  /\ api_key \in ApiKeys
  /\ api_call = NoCall
  /\ api_sent = <<>>
  /\ api_result = NoResult

NextApi ==
  \/ CallSendApiRequest
  \/ DownloadUrlRequest
  \/ DatasetsDownloadUrlRequest
  \/ CallUploadPart
  \/ CallGetDownloadPlan
  \/ CallGetDownloadPlanOfDatasets
  \/ CallGetDatasetDetails
  \/ CallGetPresignedPartUrl
  \/ CallInitiateUpload
  \/ SaveUploadState
  \/ LoadUploadState

SpecApi == InitApi /\ [][NextApi]_vars

\* ============================= the caller's retries of a download (download.py)
\* After a failure the caller calls determine_resume_state again and then
\* execute_download_plan with what it returned, with the plan of the first
\* attempt: the remote archive does not change between the attempts.  `pre`
\* holds the files the attempt started from, before determine_resume_state.
\* The server of the download URL honours the Range header: it streams the
\* archive from the offset on, or answers 416 when the offset is at or past
\* the end; a server that ignores the header is the subject of
\* C9_CompleteOnReturn.  `calls` does not count the attempts, which are
\* not bounded.
AttemptFailed ==
  op = "execute_download_plan" /\ pc = "done" /\ raised # NoError

RetryDetermine ==
  /\ UNCHANGED <<upvars, apivars, auxvars>>
  /\ op = "none" \/ AttemptFailed
  /\ \E p \in (IF op = "none" THEN Plans ELSE {plan}) :
       LET r == determine_resume_state(fs, p)
       IN  /\ plan' = p
           /\ ret' = r.ret
           /\ fs' = r.fs
  /\ op' = "determine_resume_state"
  /\ pc' = "done"
  /\ pre' = fs
  /\ resume_download_checksum' = NoneV
  /\ headers' = NoneV
  /\ downloaded_bytes_so_far' = 0
  /\ session_downloaded_bytes' = 0
  /\ total_downloaded_bytes' = 0
  /\ body' = <<>>
  /\ written' = <<>>
  /\ raised' = NoError
  /\ raised_at' = ""
  /\ UNCHANGED calls

\* The caller writes the marker before the transfer when the plan has a
\* checksum (tests/e2e/test_e2e.py, lines 102-103).
WriteChecksumFile ==
  /\ UNCHANGED <<upvars, apivars, auxvars>>
  /\ op = "determine_resume_state" /\ pc = "done"
  /\ Truthy(plan.checksum)
  /\ fs[checksum_filepath] # File(plan.checksum.v)
  /\ fs' = write_checksum_file(fs, plan.checksum.v)
  /\ UNCHANGED <<op, pc, plan, ret, pre, calls, locals, raised, raised_at>>

\* execute_download_plan(plan, <what determine_resume_state returned>, ...)
RetryExecCall ==
  /\ UNCHANGED <<upvars, apivars, auxvars>>
  /\ op = "determine_resume_state" /\ pc = "done"
  /\ op' = "execute_download_plan"
  /\ pc' = "prepare"
  /\ resume_download_checksum' = ret
  /\ UNCHANGED <<fs, plan, ret, pre, calls, headers, downloaded_bytes_so_far,
                 session_downloaded_bytes, total_downloaded_bytes, body,
                 written, raised, raised_at>>

\* Lines 175-183 with a server that serves the range asked for.
RetryRequestOk ==
  /\ UNCHANGED <<upvars, apivars, auxvars>>
  /\ op = "execute_download_plan" /\ pc = "request"
  /\ RangeSatisfiable(plan, headers)
  /\ body' = ResponseBody(plan, headers, TRUE)
  /\ fs' = open_append(fs)
  /\ pc' = "stream"
  /\ UNCHANGED <<op, plan, ret, pre, calls, resume_download_checksum, headers,
                 downloaded_bytes_so_far, session_downloaded_bytes,
                 total_downloaded_bytes, written, raised, raised_at>>

NextRetry ==
  \/ RetryDetermine
  \/ WriteChecksumFile
  \/ RetryExecCall
  \/ ExecPrepare
  \/ ExecPrepareRaises
  \/ RetryRequestOk
  \/ ExecRequestFails
  \/ ExecChunk
  \/ ExecEmptyChunk
  \/ ExecStreamFails
  \/ ExecReturn

\* The caller goes on retrying and a call that has started goes on running:
\* some step is taken whenever one can be.  Interrupts, connection errors
\* and I/O errors do not recur for ever: a step of the transfer that could
\* succeed again and again eventually does.
SpecRetry ==
  /\ Init
  /\ [][NextRetry]_vars
  /\ WF_vars(NextRetry)
  /\ SF_vars(ExecPrepare)
  /\ SF_vars(RetryRequestOk)
  /\ SF_vars(ExecChunk)
  /\ SF_vars(ExecReturn)

\* ================= two callers downloading to the same paths (download.py)
\* Each run is a caller that calls determine_resume_state and then
\* execute_download_plan with what it returned, for the same plan and so
\* the same partial file and marker.  Nothing keeps a run from starting
\* while the other is under way.  A run record keeps, besides the locals of
\* the call, whether the run ever raised, whether it ever started while the
\* other was under way, and whether the server ever ignored its Range
\* header.
RunPlan == DownloadPlan("a", TRUE)

RunActive(r) == runs[r].pc \notin {"idle", "done"}

InitRuns ==
  /\ \E n \in 0..(ArchiveLen - 1) :
       fs = (tmp_filepath :> File(SubSeq(Archive("a"), 1, n)))
              @@ (checksum_filepath :> File(Checksum("a")))
              @@ (target_filepath :> Absent)
  /\ DownloadNotStarted
  /\ source_exists = TRUE
  /\ source_file = SourceBytes
  /\ state_file = NoStateFile
  /\ UploadNotStarted
  /\ AuxNotStarted
  /\ ApiNotStarted

RunUnchanged ==
  UNCHANGED <<op, pc, plan, ret, pre, calls, locals, raised, raised_at, upvars,
              apivars, stored, expired>>

\* Lines 88-144, then the call of execute_download_plan.
RunCall(r) ==
  /\ ~RunActive(r)
  /\ calls < MaxRunCalls
  /\ calls' = calls + 1
  /\ LET d == determine_resume_state(fs, RunPlan)
     IN  /\ fs' = d.fs
         /\ runs' = [runs EXCEPT ![r] =
               [NoRun EXCEPT !.pc = "prepare",
                             !.resume_download_checksum = d.ret,
                             !.raised = runs[r].raised,
                             !.range_ignored = runs[r].range_ignored,
                             !.overlapped = runs[r].overlapped
                                \/ \E o \in Runs \ {r} : RunActive(o)]]
  /\ UNCHANGED <<op, pc, plan, ret, pre, locals, raised, raised_at, upvars,
                 apivars, stored, expired>>

\* Lines 162-168.
RunPrepare(r) ==
  /\ runs[r].pc = "prepare"
  /\ LET h == _prepare_download_headers(fs, runs[r].resume_download_checksum)
     IN  /\ fs' = h.fs
         /\ runs' = [runs EXCEPT ![r].headers = h.headers, ![r].pc = "request"]
  /\ RunUnchanged

\* Lines 175-183: a 2xx answer; the partial file is opened for append.
RunRequestOk(r) ==
  /\ runs[r].pc = "request"
  /\ \E serves_range \in BOOLEAN :
       /\ serves_range => RangeSatisfiable(RunPlan, runs[r].headers)
       /\ runs' = [runs EXCEPT
             ![r].body = ResponseBody(RunPlan, runs[r].headers, serves_range),
             ![r].range_ignored = @ \/ (runs[r].headers.some /\ ~serves_range),
             ![r].pc = "stream"]
  /\ fs' = open_append(fs)
  /\ RunUnchanged

\* Lines 196-203: the request, the iteration or the write raises.
RunFails(r) ==
  /\ runs[r].pc \in {"request", "stream"}
  /\ runs' = [runs EXCEPT ![r].raised = TRUE, ![r].pc = "done"]
  /\ UNCHANGED fs
  /\ RunUnchanged

\* Lines 185-191: a chunk is appended at the end of the file as it is now.
RunChunk(r) ==
  /\ runs[r].pc = "stream"
  /\ \E n \in 1..Min(ChunkSize, Len(runs[r].body)) :
       /\ fs' = write_chunk(fs, SubSeq(runs[r].body, 1, n))
       /\ runs' = [runs EXCEPT
             ![r].body = SubSeq(@, n + 1, Len(@))]
  /\ RunUnchanged

\* The response is exhausted: the function returns None.
RunReturn(r) ==
  /\ runs[r].pc = "stream"
  /\ runs[r].body = <<>>
  /\ runs' = [runs EXCEPT ![r].pc = "done"]
  /\ UNCHANGED fs
  /\ RunUnchanged

NextRuns ==
  \E r \in Runs :
    \/ RunCall(r)
    \/ RunPrepare(r)
    \/ RunRequestOk(r)
    \/ RunFails(r)
    \/ RunChunk(r)
    \/ RunReturn(r)

SpecRuns == InitRuns /\ [][NextRuns]_vars

\* ================================================================ properties
Returned(f) == op = f /\ pc = "done"

\* The marker's stored checksum of the files the call started from.
StoredBefore == strip(pre[checksum_filepath].data)

\* The resume row of the table, on the files the call started from.
MatchBefore ==
  /\ pre[tmp_filepath].exists
  /\ pre[checksum_filepath].exists
  /\ StoredBefore # <<>>
  /\ plan.checksum = Some(StoredBefore)

\* The executor was given a resume checksum and found a partial file.
Resuming == Truthy(resume_download_checksum) /\ pre[tmp_filepath].exists

\* C1: determine_resume_state returns a checksum if and only if the partial
\* file exists, the marker exists and its stripped content is non-empty and
\* equal to the plan's checksum; the value returned is that stored checksum,
\* and in every other combination it returns None.
C1_ResumeIffMatch ==
  Returned("determine_resume_state") =>
    /\ ret.some <=> MatchBefore
    /\ MatchBefore => ret = Some(StoredBefore)

\* C1's case: a checksum was returned from a marker that needed stripping.
C1_Witness ==
  /\ Returned("determine_resume_state")
  /\ ret.some
  /\ pre[checksum_filepath].data # StoredBefore

\* C2: in the resume case determine_resume_state changes nothing on disk: the
\* partial file keeps its bytes and the marker its content.
C2_ResumeKeepsFiles ==
  (Returned("determine_resume_state") /\ MatchBefore) =>
    /\ fs[tmp_filepath] = pre[tmp_filepath]
    /\ fs[checksum_filepath] = pre[checksum_filepath]
    /\ fs[target_filepath] = pre[target_filepath]

\* C2's case: a resume with bytes in the partial file.
C2_Witness ==
  /\ Returned("determine_resume_state")
  /\ MatchBefore
  /\ pre[tmp_filepath].data # <<>>

\* The three deleting rows, on the files the call started from.
MismatchBefore ==
  /\ pre[tmp_filepath].exists
  /\ pre[checksum_filepath].exists
  /\ StoredBefore # <<>>
  /\ plan.checksum # Some(StoredBefore)
PartOnlyBefore == pre[tmp_filepath].exists /\ ~pre[checksum_filepath].exists
MarkerOnlyBefore == ~pre[tmp_filepath].exists /\ pre[checksum_filepath].exists

\* C3: in each deleting row (checksum mismatch, partial without marker,
\* marker without partial) determine_resume_state returns None and neither
\* the partial file nor the marker exists when it returns.
C3_DeletingRows ==
  (Returned("determine_resume_state")
     /\ (MismatchBefore \/ PartOnlyBefore \/ MarkerOnlyBefore)) =>
    /\ ret = NoneV
    /\ ~fs[tmp_filepath].exists
    /\ ~fs[checksum_filepath].exists

\* C3's case: a mismatch against a plan that has a checksum, with bytes in
\* the partial file.
C3_Witness ==
  /\ Returned("determine_resume_state")
  /\ MismatchBefore
  /\ plan.checksum.some
  /\ pre[tmp_filepath].data # <<>>

\* C4: with a partial file and a marker whose content is empty or whitespace
\* only, determine_resume_state returns None and no partial file remains.
C4_BlankMarkerDeletesPartial ==
  (Returned("determine_resume_state")
     /\ pre[tmp_filepath].exists
     /\ pre[checksum_filepath].exists
     /\ StoredBefore = <<>>) =>
    /\ ret = NoneV
    /\ ~fs[tmp_filepath].exists

\* C5: after the headers are prepared, a resuming call carries a Range header
\* starting at the partial file's size, counts that size as prior bytes and
\* has left the partial file alone; any other call carries no Range header,
\* counts 0 prior bytes and has no partial file left, so that what is
\* written starts at byte 0.
C5_OffsetFromResumeState ==
  /\ (op = "execute_download_plan" /\ pc = "request") =>
       IF Resuming
       THEN /\ headers = Some(Len(pre[tmp_filepath].data))
            /\ downloaded_bytes_so_far = Len(pre[tmp_filepath].data)
            /\ total_downloaded_bytes = Len(pre[tmp_filepath].data)
            /\ fs[tmp_filepath] = pre[tmp_filepath]
       ELSE /\ headers = NoneV
            /\ downloaded_bytes_so_far = 0
            /\ total_downloaded_bytes = 0
            /\ ~fs[tmp_filepath].exists
  /\ (op = "execute_download_plan" /\ pc = "stream" /\ ~Resuming) =>
       fs[tmp_filepath] = File(written)

\* C5's case: a request about to be sent with a Range header past byte 0.
C5_Witness ==
  /\ op = "execute_download_plan"
  /\ pc = "request"
  /\ headers.some
  /\ headers.v > 0

\* C6: during a resumed execute_download_plan, at every step and after a
\* failure, the partial file holds the bytes it held at the start of the call
\* followed by the chunks written so far, in order.
C6_AppendOnly ==
  (op = "execute_download_plan" /\ Resuming) =>
    fs[tmp_filepath] = File(pre[tmp_filepath].data \o written)

\* C6's case: a resumed call that failed after writing bytes behind the ones
\* it found.
C6_Witness ==
  /\ Returned("execute_download_plan")
  /\ Resuming
  /\ raised.kind = "DownloadError"
  /\ pre[tmp_filepath].data # <<>>
  /\ written # <<>>

\* C7: an exception or interrupt raised in an executor while the request is
\* issued, on an error status, or while a chunk is streamed or written
\* leaves the call as a DownloadError, never as another kind of error.
C7_OnlyDownloadError ==
  (pc = "done"
     /\ op \in {"execute_download_plan", "_execute_download_plan"}
     /\ raised_at \in {"request", "stream"}) =>
    raised.kind = "DownloadError"

C9_CompleteOnReturn ==
  (Returned("execute_download_plan") /\ raised.kind = "none") =>
    Len(fs[tmp_filepath].data) = plan.size_bytes

\* C10: the target path changes only by the rename of the partial file after
\* the executor has returned; neither executor touches it, a failed transfer
\* leaves it as it was before the call, and a successful one leaves the
\* partial file in place for the rename.
C10_TargetOnlyByRename ==
  /\ [][fs'[target_filepath] # fs[target_filepath] =>
          /\ op = "save_dataset_to_disk"
          /\ pc = "commit"
          /\ raised = NoError
          /\ fs'[target_filepath] = fs[tmp_filepath]]_vars
  /\ []((pc = "done"
           /\ op \in {"execute_download_plan", "_execute_download_plan"}) =>
          fs[target_filepath] = pre[target_filepath])
  /\ [](((Returned("execute_download_plan") /\ raised.kind = "none")
           \/ pc = "commit") =>
          fs[tmp_filepath].exists)

\* C10's case: an overwriting save whose transfer failed after bytes were
\* written.
C10_Witness ==
  /\ Returned("_execute_download_plan")
  /\ raised # NoError
  /\ pre[target_filepath].exists
  /\ written # <<>>

\* C11: after save_dataset_to_disk has returned from a download, the archive
\* is at the target path and neither the partial file nor the checksum
\* marker exists.
C11_NoLeftovers ==
  (Returned("save_dataset_to_disk") /\ raised = NoError /\ written # <<>>) =>
    /\ fs[target_filepath].exists
    /\ ~fs[tmp_filepath].exists
    /\ ~fs[checksum_filepath].exists

\* ------------------------------------------- upload_dataset_file: terms
Range(s) == {s[i] : i \in 1..Len(s)}
Ascending(s) == \A i \in 1..(Len(s) - 1) : s[i] < s[i + 1]
Numbers(parts) == {parts[i].partNumber : i \in 1..Len(parts)}
CeilDiv(a, b) == CHOOSE n \in 0..a : n * b >= a /\ (n = 0 \/ (n - 1) * b < a)

\* The state file the call found holds a state load_upload_state accepts.
LoadedValid ==
  /\ resume
  /\ pre_state_file.exists
  /\ pre_state_file.whole
  /\ \A n \in Numbers(pre_state_file.payload.parts) : n >= 1
  /\ pre_state_file.payload.fileUploadId # <<>>
  /\ pre_state_file.payload.uploadId # <<>>
  /\ pre_state_file.payload.fileSize > 0
  /\ pre_state_file.payload.partSize > 0

\* It is for the file, the filename and the submission of this call.
SameUpload ==
  /\ pre_state_file.payload.fileSize = file_size
  /\ pre_state_file.payload.filename = final_filename
  /\ pre_state_file.payload.submissionId = submission_id

CanResume == uploads > 0 /\ LoadedValid /\ SameUpload
Mismatching == uploads > 0 /\ LoadedValid /\ ~SameUpload
NothingToResume ==
  /\ uploads > 0
  /\ \/ ~resume
     \/ ~pre_state_file.exists
     \/ pre_state_file.whole /\ ~(LoadedValid /\ SameUpload)

RecordedBefore == Numbers(pre_state_file.payload.parts)
PersistedNumbers ==
  IF state_file.exists /\ state_file.whole
  THEN Numbers(state_file.payload.parts) ELSE {}

\* C12: a call with nothing to resume initiates a session before any
\* presigned-URL request or PUT, and when it asks for its first URL or PUTs
\* its first part the state file holds the new session's ids and no parts;
\* in every call, a part is PUT only while the state file names the session
\* the part belongs to.
C12_StateSavedBeforeParts ==
  /\ (NothingToResume /\ (upc \in {"url", "put"} \/ url_requests # <<>>
                           \/ puts # <<>>)) =>
       /\ initiated = 1
       /\ session.some
       /\ state.v.fileUploadId = session.v.fileUploadId
       /\ state.v.uploadId = session.v.uploadId
  /\ (NothingToResume /\ upc \in {"url", "put"} /\ puts = <<>>) =>
       state_file.payload.parts = <<>>
  /\ upc \in {"url", "put"} =>
       /\ state_file.exists /\ state_file.whole
       /\ state_file.payload.fileUploadId = state.v.fileUploadId
       /\ state_file.payload.uploadId = state.v.uploadId

\* C12's case: a state file of another session was found, unusable, and a
\* part has been PUT.
C12_Witness ==
  /\ NothingToResume
  /\ resume
  /\ pre_state_file.exists
  /\ pre_state_file.payload.parts # <<>>
  /\ puts # <<>>

\* C13: a loaded state is kept only if its file size, filename and
\* submission id are the call's; otherwise a new session is initiated, no
\* recorded part is taken over (every part of the state, and of the state
\* file once the new state is saved, was PUT in this call), and a call that
\* completes has PUT every part 1..N in order.
C13_MismatchRestarts ==
  /\ (uploads > 0 /\ initiated = 0 /\ state.some) => CanResume
  /\ (Mismatching /\ state.some) =>
       /\ initiated = 1
       /\ state.v.fileUploadId = SessionId(sessions)
       /\ state.v.fileUploadId # pre_state_file.payload.fileUploadId
       /\ Numbers(state.v.parts) \subseteq Range(puts)
       /\ Keys(parts_by_number) \subseteq Range(puts)
  /\ (Mismatching
        /\ upc \in {"prepare", "loop", "url", "put", "verify", "complete"}) =>
       /\ state_file.exists /\ state_file.whole
       /\ state_file.payload.fileUploadId = state.v.fileUploadId
       /\ Numbers(state_file.payload.parts) \subseteq Range(puts)
  /\ (Mismatching /\ completions # <<>>) =>
       puts = [i \in 1..CeilDiv(file_size, state.v.partSize) |-> i]

\* C13's case: a state with a recorded part for another submission, and the
\* call completed.
C13_Witness ==
  /\ Mismatching
  /\ pre_state_file.payload.submissionId # submission_id
  /\ pre_state_file.payload.fileSize = file_size
  /\ RecordedBefore # {}
  /\ completions # <<>>

\* C14: in a call that resumes a matching state no session is initiated, no
\* recorded part is PUT and no URL is requested for one, the parts PUT
\* ascend, and a call that completes has PUT exactly the parts that were
\* missing.
C14_OnlyMissingPartsPut ==
  CanResume =>
    /\ initiated = 0
    /\ Range(puts) \cap RecordedBefore = {}
    /\ {i + 1 : i \in Range(url_requests)} \cap RecordedBefore = {}
    /\ Ascending(puts)
    /\ Ascending(url_requests)
    /\ completions # <<>> =>
         Range(puts) =
           (1..CeilDiv(file_size, state.v.partSize)) \ RecordedBefore

\* C14's case: part 2 was recorded, parts 1 and 3 were PUT, and the call
\* completed.
C14_Witness ==
  /\ CanResume
  /\ RecordedBefore = {2}
  /\ puts = <<1, 3>>
  /\ completions # <<>>

\* C15: wherever an attempt is interrupted, at most one part that was PUT
\* in it is missing from the state file.
C15_AtMostOneUnpersisted ==
  uploads > 0 => Cardinality(Range(puts) \ PersistedNumbers) <= 1

\* C16: a call with resume=true that follows an attempt interrupted while
\* it rewrote the state file does not fail on the file and has a state to
\* proceed from.
C16_ResumeSurvivesCrash ==
  (uploads > 1 /\ resume /\ pre_state_file.exists /\ ~pre_state_file.whole) =>
    /\ uraised # "JSONDecodeError"
    /\ state.some

\* C17: the checksum sent to complete_upload, kept in the returned state and
\* written to the state file is the digest of the first fileSize bytes of
\* the archive, whichever parts were skipped.
C17_ChecksumOfWholeFile ==
  (completions # <<>> /\ Len(source_file) >= file_size) =>
    LET digest == hexdigest(SubSeq(source_file, 1, file_size))
    IN  /\ completions[1].checksum = digest
        /\ state.v.checksum = digest
        /\ state_file.payload.checksum = digest

\* C17's case: a resumed call that skipped a part, PUT another and
\* completed.
C17_Witness ==
  /\ CanResume
  /\ completions # <<>>
  /\ puts # <<>>
  /\ Len(puts) < CeilDiv(file_size, state.v.partSize)

\* C18: the part list sent to complete_upload, which is the returned
\* state's, has N = ceil(fileSize / partSize) entries whose numbers are
\* 1, 2, ..., N in this order.
C18_PartsAreOneToN ==
  completions # <<>> =>
    LET N == CeilDiv(state.v.fileSize, state.v.partSize)
    IN  /\ completions[1].parts = state.v.parts
        /\ Len(state.v.parts) = N
        /\ \A i \in 1..N : state.v.parts[i].partNumber = i

\* C18's case: the call resumed a state listing two parts out of order or
\* the same part twice, and completed.
C18_Witness ==
  /\ CanResume
  /\ Len(pre_state_file.payload.parts) = 2
  /\ pre_state_file.payload.parts[1].partNumber
       >= pre_state_file.payload.parts[2].partNumber
  /\ completions # <<>>

\* C19: complete_upload is called at most once in a call, only with the
\* bytes read equal to the state's file size, the recorded parts N in
\* number, and the state with its checksum already in the state file; a
\* call that fails either check raises without calling it and leaves the
\* state file as last saved, with every part it held when the call began.
C19_CompleteOnlyAfterChecks ==
  /\ Len(completions) <= 1
  /\ (upc = "complete" \/ completions # <<>>) =>
       /\ uraised \in {"none", "HTTPError", "KeyboardInterrupt"}
       /\ bytes_read = state.v.fileSize
       /\ Cardinality(Keys(parts_by_number))
            = CeilDiv(state.v.fileSize, state.v.partSize)
       /\ state.v.checksum.some
       /\ state_file = StateFile(state.v)
  /\ completions # <<>> => uraised = "none" /\ upc = "done"
  /\ uraised \in {"RuntimeError: size changed", "RuntimeError: incomplete"} =>
       /\ completions = <<>>
       /\ state_file = StateFile(state.v)
       /\ CanResume => RecordedBefore \subseteq PersistedNumbers

\* C19's case: the archive shrank after a part was PUT and the size check
\* failed.
C19_Witness ==
  /\ uraised = "RuntimeError: size changed"
  /\ puts # <<>>

\* C20: a call that resumes a state holding all N parts and a checksum PUTs
\* nothing, initiates nothing and requests no URL, and when it completes its
\* state and the state file are those it found.
C20_CompletedUploadIdempotent ==
  (CanResume /\ pre_state_file.payload.checksum.some
     /\ RecordedBefore = 1..CeilDiv(file_size, pre_state_file.payload.partSize)) =>
    /\ puts = <<>>
    /\ initiated = 0
    /\ url_requests = <<>>
    /\ completions # <<>> =>
         /\ state.v.checksum = pre_state_file.payload.checksum
         /\ state.v.parts = pre_state_file.payload.parts
         /\ state_file = pre_state_file

\* C20's case: the second call on an archive the first call uploaded.
C20_Witness ==
  /\ uploads = 2
  /\ CanResume
  /\ pre_state_file.payload.checksum.some
  /\ completions # <<>>
  /\ puts = <<>>

\* C21: whenever save_upload_state has written the state file, the checksum
\* in it is non-null only if its part list names every part 1..N, with
\* N = ceil(fileSize / partSize); the saves made at initiation and after a
\* single part, while a part is still missing, write a null checksum.
AllPartsIn(payload) ==
  (1..CeilDiv(payload.fileSize, payload.partSize)) \subseteq Numbers(payload.parts)

C21_ChecksumOnlyWhenComplete ==
  [][(upc \in WritePcs /\ state_file' # state_file) =>
       /\ state_file'.payload.checksum.some => AllPartsIn(state_file'.payload)
       /\ (upc \in {"write_initial", "write_part"}
             /\ ~AllPartsIn(state_file'.payload)) =>
            state_file'.payload.checksum = NoneV]_vars

\* C21's case: a call that found a state with parts missing and no checksum
\* has PUT the rest and written the state with its checksum.
C21_Witness ==
  /\ upc = "complete"
  /\ CanResume
  /\ pre_state_file.payload.parts # <<>>
  /\ ~AllPartsIn(pre_state_file.payload)
  /\ pre_state_file.payload.checksum = NoneV
  /\ puts # <<>>
  /\ state_file.payload.checksum.some
  /\ AllPartsIn(state_file.payload)

\* C22: an ETag header that is missing or empty makes _extract_etag raise;
\* the call that raises so leaves the state, the dict of parts and the state
\* file as they were, the part absent from each; the next call resuming that
\* state for the same archive loads a state without the part, and a part the
\* loaded state lacks is read whole and goes on to be PUT.
ETagRaised == upc = "done" /\ uraised = "RuntimeError: ETag"

C22_MissingETagFails ==
  [][/\ \A h \in ETagHeaders : ~Truthy(h) => _extract_etag(h).raised
     /\ (upc = "put" /\ ETagRaised') =>
          /\ state' = state
          /\ parts_by_number' = parts_by_number
          /\ state_file' = state_file
          /\ part_number \notin Numbers(state.v.parts)
          /\ part_number \notin PersistedNumbers
          /\ ~parts_by_number[part_number].some
     /\ (ETagRaised /\ uploads' = uploads + 1 /\ resume'
           /\ submission_id' = submission_id /\ file_size' = file_size) =>
          /\ state'.some
          /\ upc' = "prepare"
          /\ part_number \notin Numbers(state'.v.parts)
     /\ (upc = "loop" /\ part_index < expected_parts
           /\ source_file' = source_file
           /\ read(source_file, bytes_read, state.v.partSize) # <<>>
           /\ part_number \notin Numbers(state.v.parts)) =>
          /\ upc' \in {"url", "done"}
          /\ upc' = "url" =>
               chunk_read' = read(source_file, bytes_read, state.v.partSize)]_vars

\* C22's case: a call resuming a state that lacks a part has PUT that part,
\* the answer had no ETag, and the call has raised.
C22_Witness ==
  /\ uploads = 2
  /\ CanResume
  /\ ETagRaised
  /\ puts = <<part_number>>
  /\ part_number \notin PersistedNumbers
  /\ state_file = pre_state_file

\* C24: a call of upload_dataset_file on a path with no file or with a file
\* of 0 bytes raises at once: it ends with FileNotFoundError or ValueError
\* having sent no initiation, no presigned-URL request, no PUT and no
\* complete request, and the state file is as the call found it.
SourceUnusable == ~source_exists \/ Len(source_file) = 0

C24_EmptyFileRejected ==
  [][(uploads' = uploads + 1 /\ SourceUnusable) =>
       /\ upc' = "done"
       /\ uraised' = IF source_exists THEN "ValueError: empty file"
                     ELSE "FileNotFoundError"
       /\ initiated' = 0
       /\ sessions' = sessions
       /\ url_requests' = <<>>
       /\ puts' = <<>>
       /\ completions' = <<>>
       /\ state_file' = state_file]_vars

\* C24's case: the file is empty, a state file is there, and the call has
\* raised.
C24_Witness ==
  /\ upc = "done"
  /\ uploads > 0
  /\ source_exists
  /\ source_file = <<>>
  /\ uraised = "ValueError: empty file"
  /\ resume
  /\ pre_state_file.exists
  /\ state_file = pre_state_file

\* ------------------------------------- the functions on their own: terms
BlankText(t) == \A i \in 1..Len(t) : t[i] = " "
ValidForLoad(s) ==
  /\ s.fileUploadId # <<>>
  /\ s.uploadId # <<>>
  /\ s.fileSize > 0
  /\ s.partSize > 0
SavedThenLoaded ==
  api_call.fn = "save_upload_state" /\ api_call'.fn = "load_upload_state"

C25_NonPositiveRejected ==
  /\ (api_call.fn = "get_presigned_part_url" /\ api_call.chunk_index <= 0) =>
       api_result.raised = "ValueError" /\ api_sent = <<>>
  /\ (api_call.fn = "initiate_upload"
        /\ get(api_call.data.partSize, 0) <= 0) =>
       api_result.raised = "ValueError" /\ api_sent = <<>>

\* C25, amended: get_presigned_part_url raises ValueError, having sent no
\* request, for a negative chunk index, and for chunk index zero, a file
\* upload id that is not blank and an API key it sends its one request and
\* returns the part number answered, or the index plus one; initiate_upload
\* takes no part size: it raises ValueError, having sent no request, for a
\* file size that is zero or negative, and when it returns it has sent its
\* request and the session holds the part size the server answered (0 when
\* the answer has none), be it zero or negative.
C25_NegativeChunkIndexRejected ==
  /\ api_call.fn = "get_presigned_part_url" =>
       /\ api_call.chunk_index < 0 =>
            api_result.raised = "ValueError" /\ api_sent = <<>>
       /\ (api_call.chunk_index >= 0 /\ ~BlankText(api_call.file_upload_id)
             /\ Truthy(api_key)) =>
            /\ Len(api_sent) = 1
            /\ api_result.raised \notin {"ValueError"}
            /\ api_call.status = 200 =>
                 /\ api_result.ret.some
                 /\ api_result.ret.v.partNumber =
                      get(api_call.data.partNumber, api_call.chunk_index + 1)
  /\ api_call.fn = "initiate_upload" =>
       /\ api_call.file_size <= 0 =>
            api_result.raised = "ValueError" /\ api_sent = <<>>
       /\ api_result.ret.some =>
            /\ Len(api_sent) = 1
            /\ api_result.ret.v.partSize = get(api_call.data.partSize, 0)

\* C25's case: chunk index zero was asked for and answered.
C25_Witness ==
  /\ api_call.fn = "get_presigned_part_url"
  /\ api_call.chunk_index = 0
  /\ api_result.raised = "none"
  /\ Len(api_sent) = 1
  /\ api_result.ret.v.partNumber = 1
  /\ api_result.ret.v.presignedUrl = "url"

\* C26: get_download_plan (download.py), _get_download_plan and
\* get_dataset_details (datasets.py) called with a dataset id that is empty
\* or all whitespace raise ValueError and have sent no request.
PlanFns == {"get_download_plan", "_get_download_plan"}

C26_BlankIdRejected ==
  (api_call.fn \in PlanFns \cup {"get_dataset_details"}
     /\ BlankText(api_call.dataset_id)) =>
    /\ api_result.raised = "ValueError"
    /\ api_sent = <<>>
    /\ ~api_result.ret.some

\* C26's case: an id of two spaces, with an API key configured.
C26_Witness ==
  /\ api_call.fn = "get_download_plan"
  /\ api_call.dataset_id = <<" ", " ">>
  /\ Truthy(api_key)
  /\ api_result.raised = "ValueError"
  /\ api_sent = <<>>

\* C27: a plan is returned only for an answer with a URL and a filename that
\* are not empty and a size that is positive; an answer received with a 2xx
\* status in which the URL or the filename is missing or empty, or the size
\* is missing, zero or negative, makes the function raise the RuntimeError
\* for an unexpected format and return no plan.
WellFormed(payload) ==
  /\ payload.downloadUrl.some /\ payload.downloadUrl.v # <<>>
  /\ payload.filename.some /\ payload.filename.v # <<>>
  /\ payload.sizeBytes.some /\ payload.sizeBytes.v > 0
Answered2xx ==
  api_sent # <<>> /\ api_call.status >= 200 /\ api_call.status < 300

C27_PlanOnlyWhenWellFormed ==
  api_call.fn \in PlanFns =>
    /\ api_result.ret.some => WellFormed(api_call.payload)
    /\ (Answered2xx /\ ~WellFormed(api_call.payload)) =>
         /\ api_result.raised = "RuntimeError: format"
         /\ ~api_result.ret.some

\* C28: send_api_request maps the status of the response to one outcome:
\* 404 to FileNotFoundError, 403 to PermissionError, 429 to RuntimeError,
\* any other status outside 200..299 to HTTPError, and it returns the
\* response for 200..299; it issues one request in a call.
ExpectedOutcome(status) ==
  CASE status = 404 -> "FileNotFoundError"
    [] status = 403 -> "PermissionError"
    [] status = 429 -> "RuntimeError"
    [] status >= 200 /\ status < 300 -> "none"
    [] OTHER -> "HTTPError"

C28_StatusOutcome ==
  (api_call.fn = "send_api_request" /\ api_sent # <<>>) =>
    /\ Len(api_sent) = 1
    /\ api_result.raised = ExpectedOutcome(api_call.status)
    /\ api_result.ret.some <=> (api_call.status >= 200 /\ api_call.status < 300)

\* C29: a call that sends with authentication (send_api_request with
\* include_auth_headers, and the functions that call it so) sends every
\* request with Authorization: Bearer <the configured key>, and with no key
\* configured it sends nothing and raises, send_api_request itself a
\* ValueError; the requests to a plan's download URL and the PUT of a part
\* carry no Authorization header.
AuthFns ==
  PlanFns \cup {"get_dataset_details", "get_presigned_part_url", "initiate_upload"}
AuthEnabled ==
  \/ api_call.fn \in AuthFns
  \/ api_call.fn = "send_api_request" /\ api_call.include_auth_headers
PresignedFns == {"execute_download_plan", "_execute_download_plan", "_upload_part"}

C29_BearerOnlyToApi ==
  /\ AuthEnabled =>
       /\ \A i \in 1..Len(api_sent) :
            /\ Truthy(api_key)
            /\ api_sent[i].Authorization = Some(<<"Bearer", " ">> \o api_key.v)
       /\ ~Truthy(api_key) =>
            /\ api_sent = <<>>
            /\ api_result.raised # "none"
            /\ api_call.fn = "send_api_request" => api_result.raised = "ValueError"
  /\ api_call.fn \in PresignedFns =>
       \A i \in 1..Len(api_sent) : ~api_sent[i].Authorization.some

\* C29's case: a request has been sent with authentication and a key.
C29_Witness ==
  /\ api_call.fn = "send_api_request"
  /\ api_call.include_auth_headers
  /\ Len(api_sent) = 1
  /\ api_sent[1].Authorization = Some(<<"Bearer", " ", "k">>)
  /\ api_result.ret.some

\* ------------------------------------------------ save_dataset_to_disk: terms
SaveCalled ==
  /\ calls' = calls + 1
  /\ op' \in {"save_dataset_to_disk", "_execute_download_plan"}
ResumeMismatch == Truthy(resume_download_checksum) /\ resume_download_checksum # plan.checksum
NothingTransferred ==
  /\ op = "save_dataset_to_disk"
  /\ pc = "done"
  /\ fs = pre
  /\ headers = NoneV
  /\ body = <<>>
  /\ written = <<>>

TransferBegun ==
  /\ op = "execute_download_plan"
  /\ pc \in {"request", "stream", "done"}
  /\ raised_at # "prepare"

\* C31: in the sequence determine_resume_state, execute_download_plan with
\* its result, once the transfer has begun the partial file holds bytes
\* that were in it before the sequence only if the marker's stored checksum
\* was the plan's; in every other case the partial file is absent or holds
\* exactly the bytes received in this call.
C31_NoMixingOfVersions ==
  (TransferBegun /\ ~MatchBefore) =>
    \/ ~fs[tmp_filepath].exists /\ written = <<>>
    \/ fs[tmp_filepath].exists /\ fs[tmp_filepath].data = written

\* C31's case: a partial file of one version and a marker naming it, a plan
\* for the other version, and the transfer has returned: the partial file
\* is the plan's archive.
C31_Witness ==
  /\ Returned("execute_download_plan")
  /\ raised = NoError
  /\ pre[tmp_filepath] = File(SubSeq(Archive("a"), 1, 2))
  /\ pre[checksum_filepath] = File(Checksum("a"))
  /\ plan = DownloadPlan("b", TRUE)
  /\ fs[tmp_filepath] = File(Archive("b"))

\* An attempt has begun / has returned normally.
AttemptBegun == op \in {"determine_resume_state", "execute_download_plan"}
NormalReturn == Returned("execute_download_plan") /\ raised = NoError
\* The premises of convergence, broken: an attempt found a partial file
\* without a marker holding the plan's checksum; an attempt that started
\* short of size_bytes failed without appending a byte.
MarkerLost == AttemptBegun /\ pre[tmp_filepath].exists /\ ~MatchBefore
StalledShort ==
  /\ AttemptFailed
  /\ session_downloaded_bytes = 0
  /\ Len(pre[tmp_filepath].data) < plan.size_bytes

\* C34: with the plan unchanged between the attempts, the marker holding
\* its checksum whenever an attempt finds a partial file, and every failed
\* attempt that had bytes left to fetch appending at least one, the partial
\* file never shrinks over an attempt and some attempt returns normally,
\* also when an attempt starts with all size_bytes bytes already in the
\* partial file.
C34_RetriesConverge ==
  /\ []((AttemptBegun /\ MatchBefore) =>
         /\ fs[tmp_filepath].exists
         /\ Len(fs[tmp_filepath].data) >= Len(pre[tmp_filepath].data))
  /\ <>(NormalReturn \/ MarkerLost \/ StalledShort)

\* C33: when the part loop ends after the archive's length has changed
\* since it was measured, the bytes read differ from the size recorded, so
\* that the size check that follows raises the size-changed error and
\* complete_upload is not called; for every file size and part size.
C33_SizeChangeAborts ==
  [][(upc = "loop" /\ upc' = "verify" /\ Len(source_file) # file_size) =>
       /\ bytes_read' # state'.v.fileSize
       /\ ~SizeUnchanged']_vars

\* The bytes the store holds for the open session: the chunks last PUT for
\* its parts, in part-number order.
RECURSIVE StoredBytes(_)
StoredBytes(n) ==
  IF n > MaxPartNumber THEN <<>>
  ELSE (IF stored[n].some THEN stored[n].v ELSE <<>>) \o StoredBytes(n + 1)

Completed == upc = "done" /\ uraised = "none" /\ completions # <<>>

\* C32: whenever complete_upload has been called, the checksum it sent is
\* the SHA-256 of the concatenation, in part-number order, of the chunks
\* that were PUT for the recorded parts, whatever attempts were interrupted
\* before and however the archive's content changed between attempts.
C32_ChecksumOfStoredParts ==
  completions # <<>> =>
    completions[Len(completions)].checksum = hexdigest(StoredBytes(1))


\* The parts the state file records; an absent file and one cut short
\* record none.
PersistedParts(f) == Len(f.payload.parts)

\* The caller has stopped retrying.
GaveUp == UploadFailed /\ sessions >= MaxSessions

\* C35: the part loop of an invocation runs at most
\* N = ceil(fileSize / partSize) times; from one attempt to the next the
\* state file never records fewer parts; and, the archive unchanged and
\* every request succeeding in the end, the retries with resume=True end in
\* an invocation that returns a completed state.
C35_UploadRetriesConverge ==
  /\ [](state.some => part_index <= expected_parts)
  /\ [][UploadRetry => PersistedParts(state_file) >= PersistedParts(pre_state_file)]_vars
  /\ <>(Completed \/ edited \/ GaveUp)


\* The step that settles the URL of a part, and the step in which
\* requests.put is called with it.
UrlSettled == upc = "url" /\ upc' = "put"
PutAttempted ==
  /\ upc = "put"
  /\ upc' # "put"
  /\ uraised' \notin {"ValueError", "KeyboardInterrupt"}
InitiationUrlInUse == SessionUrlUsable /\ presigned_url = session.v.presignedUrl

\* C36: the URL of a part that is not yet recorded is the one the
\* initiation returned only for part 1, only while that URL has not
\* expired and only in the invocation that initiated; otherwise it is asked
\* of the server with chunkIndex = partNumber - 1.  An expired initiation
\* URL is never used for a PUT, and no PUT is attempted with an empty URL.
C36_PresignedUrlChoice ==
  /\ [][UrlSettled =>
          IF url_requests' = url_requests
          THEN /\ session.some /\ part_number = 1 /\ ~expired
               /\ presigned_url' = session.v.presignedUrl
          ELSE url_requests' = Append(url_requests, part_number - 1)]_vars
  /\ [][PutAttempted =>
          /\ presigned_url # ""
          /\ ~(expired /\ InitiationUrlInUse)]_vars


\* The helper has sent the submit request.
Submitted == \E i \in 1..Len(api_sent) : api_sent[i].request = "submit"
HelperCalled == api_call # NoCall /\ api_call.fn = "create_submission_with_upload"
UploadRequested ==
  initiated > 0 \/ url_requests # <<>> \/ puts # <<>> \/ completions # <<>>
UploadStarted == upc # "idle"

\* C37: the helper's remote steps come in the order create-draft, upload,
\* submit.  The submit request is sent only after upload_dataset_file has
\* returned a completed upload, once, and with that upload's fileUploadId;
\* no upload request precedes the draft request; a draft response without
\* submissionId starts no upload; and when the draft has no id, the upload
\* fails or the fields name another upload, the helper raises and the
\* submit request is never sent.
C37_DraftUploadSubmit ==
  /\ (UploadStarted \/ UploadRequested) => HelperCalled
  /\ HelperCalled =>
    /\ api_sent # <<>> /\ api_sent[1].request = "draft"
    /\ Submitted =>
         /\ api_sent = <<api_sent[1],
                         SubmissionRequest("submit", api_call.draft.v,
                                           state.v.fileUploadId)>>
         /\ upc = "done" /\ uraised = "none"
         /\ completions # <<>>
         /\ completions[Len(completions)].fileUploadId = state.v.fileUploadId
    /\ (~api_call.draft.some \/ api_call.draft.v = "") =>
         ~UploadStarted /\ ~UploadRequested
    /\ (\/ ~api_call.draft.some \/ api_call.draft.v = ""
        \/ upc = "done" /\ uraised # "none"
        \/ /\ upc = "done"
           /\ Truthy(api_call.fileUploadId)
           /\ api_call.fileUploadId.v # state.v.fileUploadId) =>
         /\ ~Submitted
         /\ ~Submitting => api_result.raised # "none"

\* Fields naming another upload than the one completed: ValueError, no
\* submit request.
C37_Witness ==
  /\ HelperCalled
  /\ upc = "done" /\ uraised = "none" /\ completions # <<>>
  /\ Truthy(api_call.fileUploadId)
  /\ api_call.fileUploadId.v # state.v.fileUploadId
  /\ api_result.raised = "ValueError"
  /\ Len(api_sent) = 1


\* Two-run bookkeeping.
Overlapped == \E r \in Runs : runs[r].overlapped
RunsReturned ==
  /\ \A r \in Runs : ~RunActive(r) /\ ~runs[r].raised
  /\ \E r \in Runs : runs[r].pc = "done"
PartialIsPrefix == fs[tmp_filepath].data \in Prefixes(Archive(RunPlan.download_url))

\* C38: a partial file that is not a prefix of the archive, with every run
\* returned and none having reported an error, is reached by two
\* interleaved runs and by no sequence of runs taken one at a time.
C38_OnlyOverlapCorrupts ==
  (RunsReturned /\ ~PartialIsPrefix) => Overlapped

====
